---- MODULE Spec2Model ----
(***************************************************************************)
(* Model of cmds/backfill_derived_data.rs: the windowed range enumerator   *)
(* (windows), the derivation capability (DerivedUtilsFromMapping: derive,  *)
(* pending, regenerate), the backfill driver (subcommand_backfill), the    *)
(* tail loop (subcommand_tail) and fetch_all_public_changesets; of         *)
(* edenapi's MultiDriver; and of revisionstore's IndexedLogHgIdDataStore.  *)
(*                                                                         *)
(* The specifications share the variables:                                 *)
(*   SpecWindows   one run of the iterator returned by windows()           *)
(*   SpecUtils     arbitrary calls of derive / pending / regenerate        *)
(*   Spec          one run of subcommand_backfill                          *)
(*   SpecTail      subcommand_tail; SpecTailFair adds fairness             *)
(*   SpecEnum      one run of fetch_all_public_changesets                  *)
(*   SpecDriver    a MultiDriver: setters, add and one perform             *)
(*   SpecILog      an IndexedLogHgIdDataStore: add, flush, reopening       *)
(* Each specification leaves the variables of the others unchanged.        *)
(***************************************************************************)
EXTENDS Integers, Sequences, FiniteSets, TLC

(***************************************************************************)
(* Bounds of the model.                                                    *)
(***************************************************************************)
\* u64 is modelled as an unsigned integer of WordBits bits.
WordBits == 3
\* The iterator is observed for at most MaxYield emitted windows (a wrapped
\* iteration need not terminate).
MaxYield == 10
\* The repository has the commits 0 .. NumCommits - 1.
NumCommits == 4
\* The calls of SpecUtils name the commits 0 .. NumUtilsCommits - 1.
NumUtilsCommits == 2
\* --skip-changesets is at most MaxSkip.
MaxSkip == 2
\* CHUNK_SIZE of the source is 4096; the model runs with chunks of 2.
CHUNK_SIZE == 2
\* list_publishing_by_prefix returns at most MaxHeads heads.
MaxHeads == 2
\* buffered(1024) of the tail loop; the model runs with a buffer of 2.
TAIL_BUFFER == 2
\* The changesets table has at most MaxRows rows.
MaxRows == 2
\* The step of fetch_all_public_changesets is 65536; the model runs with
\* windows of 2 ids.
ENUM_STEP == 2
\* add is called at most MaxTransfers times on a MultiDriver.
MaxTransfers == 2
\* The two-byte path length of a log entry is modelled with PathLenBits bits.
PathLenBits == 2
\* add is called at most MaxAdds times on an IndexedLogHgIdDataStore.
MaxAdds == 2
\* The sleep of an idle tail iteration, in milliseconds.
TAIL_SLEEP_MS == 250

Modulus == 2 ^ WordBits
Word == 0 .. (Modulus - 1)
PathLenModulus == 2 ^ PathLenBits

Min(a, b) == IF a <= b THEN a ELSE b

VARIABLES
    \* ---- windows(start, stop, step) ----
    start,            \* argument
    stop,             \* argument
    step,             \* argument
    overflow_checks,  \* build profile: TRUE = arithmetic overflow panics, FALSE = wraps
    index,            \* position of the (0..) range
    yielded,          \* the pairs the iterator has produced so far
    wpc,              \* "iter" | "done" | "panic"
    \* ---- blobstore, mappings ----
    durable,          \* keys held by the durable content store
    cache,            \* keys held by the MemWritesBlobstore buffer
    staged,           \* TRUE when the repo's blobstore is the MemWritesBlobstore
    regenerate_overlay, \* per kind: RegenerateMapping's set of commits to regenerate
    \* ---- observation of the DerivedUtils calls (SpecUtils) ----
    last,             \* the last call: operation, arguments, result, puts made
    watched,          \* the (kind, commit) pair the history below is kept for
    phase,            \* history of the watched pair, see PhaseAfterDerive
    \* ---- subcommand_backfill ----
    snapshot,         \* the file at prefetched_commits_path: whether it decodes, its entries
    skip,             \* argument
    regenerate_flag,  \* argument: regenerate
    derived_data_type, \* argument
    bpc,              \* "start" | "chunk" | "derive" | "done" | "error"
    changesets,       \* the commits to process, after sort and skip
    position,         \* how many of them chunks() has handed out
    chunk_pending,    \* the pending commits of the current chunk
    di,               \* index in chunk_pending of the next commit to derive
    in_flight,        \* the commits whose derive future is started and not yet complete
    generated_count,  \* the counter of the statistics
    err,              \* the error the backfill returned, or "none"
    \* ---- observation of the backfill ----
    derived0,         \* commits that had derived data of the kind at the start
    regenerated,      \* the lists passed to regenerate
    chunk_log,        \* the chunks passed to the prefetch and to pending
    derive_log,       \* the commits passed to derive, in call order
    persist_calls,    \* number of persist calls
    chunk_durable,    \* the durable store as it was when the current chunk started
    last_persist,     \* the buffer and the durable store as they were at the last persist call
    \* ---- subcommand_tail ----
    derived_data_types, \* argument: the names of the kinds to derive
    tpc,              \* "start" | "list" | "pending" | "derive" | "sleep" | "error" | "rejected"
    heads,            \* the commits list_publishing_by_prefix returned in this iteration
    tail_pending,     \* per configured kind, the result of pending(heads)
    tail_work,        \* the flattened list of derive futures, as <<index of the kind, commit>>
    tail_next,        \* how many of them buffered() has taken from the stream
    tail_queue,       \* indices of the futures buffered() holds
    tail_complete,    \* those of them that are complete and wait to be yielded in order
    tail_slept,       \* milliseconds slept in this iteration
    tail_err,         \* the error the tail loop returned, or "none"
    tail_calls,       \* observation: the derive calls made in this iteration
    tail_ran,         \* observation: an iteration has run to its end
    \* ---- fetch_all_public_changesets ----
    table,            \* row keys (ids) of the changesets table; a row is a commit
    public,           \* the rows the phases store reports public
    range_inclusive,  \* whether get_list_bs_cs_id_in_range includes its upper bound
    epc,              \* "bounds" | "windows" | "done" | "error" | "panic"
    enumerated,       \* the entries the stream has produced, as row keys
    \* ---- MultiDriver (edenapi/src/curl/driver.rs) ----
    fail_early,       \* field
    handles,          \* field: per token, TRUE = Some(handle), FALSE = None
    num_transfers,    \* field
    progress,         \* field: TRUE = Some(reporter)
    transfers,        \* the Multi session: per token "running" | "ok" | "failed" | "removed"
    messages,         \* the Multi session: tokens of the completions not yet read
    in_progress,      \* local of perform
    errors,           \* local of perform: the errors of the current iteration
    callbacks,        \* observation: the calls of the callback, as <<"Ok" | "Err", token>>
    reports,          \* observation: number of progress.report() calls
    dpc,              \* "setup" | "messages" | "wait" | "loop" | "returned"
    dresult,          \* what perform returned: "none" | "ok" | "multi" | "callback" | "remove"
    \* ---- IndexedLogHgIdDataStore ----
    log_disk,         \* the entries of the RotateLog that are on disk
    log_mem,          \* the entries appended to the open RotateLog and not yet flushed
    ipc,              \* "idle" | "open"
    iwatched,         \* observation: the delta of the last successful add
    iphase,           \* observation: "none" | "added" | "flushed", the state of that delta
    iadded,           \* observation: the keys of all successful adds
    iadds,            \* observation: their number
    iresult           \* observation: the last call, "ok" | "deltas_unsupported" | "reopened"

wvars == <<start, stop, step, overflow_checks, index, yielded, wpc>>
svars == <<durable, cache, staged, regenerate_overlay>>
uvars == <<last, watched, phase>>
bvars == <<snapshot, skip, regenerate_flag, derived_data_type, bpc, changesets,
           position, chunk_pending, di, in_flight, generated_count, err>>
hvars == <<derived0, regenerated, chunk_log, derive_log, persist_calls,
           chunk_durable, last_persist>>
tvars == <<derived_data_types, tpc, heads, tail_pending, tail_work, tail_next,
           tail_queue, tail_complete, tail_slept, tail_err, tail_calls, tail_ran>>
evars == <<table, public, range_inclusive, epc, enumerated>>
dvars == <<fail_early, handles, num_transfers, progress, transfers, messages,
           in_progress, errors, callbacks, reports, dpc, dresult>>
ivars == <<log_disk, log_mem, ipc, iwatched, iphase, iadded, iadds, iresult>>
vars == <<wvars, svars, uvars, bvars, hvars, tvars, evars, dvars, ivars>>

(***************************************************************************)
(* windows: src/cmds/backfill_derived_data.rs 285-290                      *)
(*   (0..).map(|index| (start + index * step, start + (index + 1) * step)) *)
(*        .take_while(|(low, _high)| *low < stop)                          *)
(*        .map(|(low, high)| (low, min(stop, high)))                       *)
(***************************************************************************)
\* The closure of the first map, in unbounded arithmetic.
WindowLowExact(s, i, st) == s + i * st
WindowHighExact(s, i, st) == s + (i + 1) * st

\* u64 arithmetic of the closure overflows for this index: one of index * step,
\* start + index * step, index + 1, (index + 1) * step, start + (index + 1) * step
\* exceeds the word.  The last one dominates the others.
WindowOverflows(s, i, st) == WindowHighExact(s, i, st) >= Modulus

\* The wrapped results (overflow checks off).
WindowLow(s, i, st) == WindowLowExact(s, i, st) % Modulus
WindowHigh(s, i, st) == WindowHighExact(s, i, st) % Modulus

\* take_while predicate
WindowTaken(low, sp) == low < sp

\* second map
WindowClamp(low, high, sp) == <<low, Min(sp, high)>>

\* next() of the iterator: the closure panics on overflow in a build with
\* overflow checks.
WindowsPanic ==
    /\ wpc = "iter"
    /\ overflow_checks
    /\ WindowOverflows(start, index, step)
    /\ wpc' = "panic"
    /\ UNCHANGED <<start, stop, step, overflow_checks, index, yielded>>
    /\ UNCHANGED <<svars, uvars, bvars, hvars, tvars, evars, dvars, ivars>>

\* next() of the iterator yields a pair.
WindowsYield ==
    /\ wpc = "iter"
    /\ Len(yielded) < MaxYield
    /\ ~(overflow_checks /\ WindowOverflows(start, index, step))
    /\ WindowTaken(WindowLow(start, index, step), stop)
    /\ yielded' = Append(yielded,
                     WindowClamp(WindowLow(start, index, step),
                                 WindowHigh(start, index, step), stop))
    /\ index' = (index + 1) % Modulus
    /\ UNCHANGED <<start, stop, step, overflow_checks, wpc>>
    /\ UNCHANGED <<svars, uvars, bvars, hvars, tvars, evars, dvars, ivars>>

\* next() of the iterator returns None: take_while saw low >= stop.
WindowsEnd ==
    /\ wpc = "iter"
    /\ ~(overflow_checks /\ WindowOverflows(start, index, step))
    /\ ~WindowTaken(WindowLow(start, index, step), stop)
    /\ wpc' = "done"
    /\ UNCHANGED <<start, stop, step, overflow_checks, index, yielded>>
    /\ UNCHANGED <<svars, uvars, bvars, hvars, tvars, evars, dvars, ivars>>

NextWindows ==
    \/ WindowsPanic
    \/ WindowsYield
    \/ WindowsEnd

(***************************************************************************)
(* Claims about windows.                                                   *)
(***************************************************************************)
\* The pairs produced so far are the first Len(yielded) tiles of [start, stop).
WindowsTilePrefix ==
    \A i \in 1 .. Len(yielded) :
        /\ yielded[i][1] < yielded[i][2]
        /\ yielded[i][2] - yielded[i][1] <= step
        /\ yielded[i][2] <= stop
        /\ IF i = 1 THEN yielded[i][1] = start
                    ELSE yielded[i][1] = yielded[i - 1][2]

\* C1: for all start <= stop and step > 0, windows(start, stop, step) yields
\* pairs (low, high) that exactly tile [start, stop): the first low is start,
\* each pair has low < high and high - low <= step, each next low is the
\* previous high, the last high is stop, and no pair is yielded when
\* start = stop.  The iterator therefore ends, and ends without a panic.
C1_WindowsTile ==
    /\ wpc # "panic"
    /\ WindowsTilePrefix
    /\ Len(yielded) <= stop - start
    /\ wpc = "done" =>
           IF start = stop THEN yielded = <<>>
           ELSE /\ yielded # <<>>
                /\ yielded[Len(yielded)][2] = stop


\* The tiling does hold where the closure cannot overflow: the largest value
\* it computes is below stop + 2 * step.
WindowsTileInRange == (stop + 2 * step <= Modulus) => C1_WindowsTile

\* The number of windows of [start, stop): the index at which take_while
\* stops, and the last index for which the closure of the first map runs.
WindowsCount == (stop - start + step - 1) \div step

\* Every pair emitted so far lies in [start, stop] and is not empty.
WindowsPairsInRange ==
    \A i \in 1 .. Len(yielded) :
        /\ start <= yielded[i][1]
        /\ yielded[i][1] < yielded[i][2]
        /\ yielded[i][2] <= stop

\* The closure of the first map has run for the indices of the emitted pairs
\* and, when take_while has ended the sequence, for the index it rejected.
WindowsCallsRun ==
    0 .. (IF wpc = "done" THEN Len(yielded) ELSE Len(yielded) - 1)

\* C31: for all u64 start <= stop and step > 0, computing the bounds of the
\* windows never leaves the u64 range: no call of the closure has panicked
\* or has wrapped, every emitted pair has start <= low < high <= stop, and
\* the sequence is finite (it has at most one pair per id of [start, stop)),
\* also when stop is within step of the greatest u64.
C31_WindowsNoOverflow ==
    /\ wpc # "panic"
    /\ \A i \in WindowsCallsRun : ~WindowOverflows(start, i, step)
    /\ WindowsPairsInRange
    /\ Len(yielded) <= stop - start

\* The arithmetic stays in range exactly for the inputs whose last closure
\* call, the one take_while rejects, fits the word: there the claim holds.
WindowsNoOverflowInRange ==
    ~WindowOverflows(start, WindowsCount, step) => C31_WindowsNoOverflow

\* Every other input does overflow: a run that came to its end without a
\* panic either had a last closure call that fits the word, or wrapped.
WindowsOverflowOutOfRange ==
    (wpc = "done" /\ overflow_checks) => ~WindowOverflows(start, WindowsCount, step)

(***************************************************************************)
(* The repository: commits, their parents and generation numbers.          *)
(* Commit 0 is the root, 1 and 2 are its children, every later commit      *)
(* merges its two predecessors.                                            *)
(***************************************************************************)
Commits == 0 .. (NumCommits - 1)

Parents(c) ==
    IF c = 0 THEN {}
    ELSE IF c <= 2 THEN {0}
    ELSE {c - 1, c - 2}

Max(S) == CHOOSE x \in S : \A y \in S : y <= x

RECURSIVE Gen(_)
Gen(c) == IF Parents(c) = {} THEN 0
          ELSE 1 + Max({Gen(p) : p \in Parents(c)})

Range(s) == {s[i] : i \in 1 .. Len(s)}

\* The derived data kinds: RootUnodeManifestId::NAME and RootFastlog::NAME.
Kinds == {"unodes", "fastlog"}

\* Blobstore keys.  The store is content addressed and derivation is
\* deterministic, so a key determines the value stored under it.
MappingKey(k, c) == <<"mapping", k, c>>
ArtifactKey(k, c) == <<"artifact", k, c>>
ChangesetKey(c) == <<"changeset", c>>

(***************************************************************************)
(* MemWritesBlobstore (cacheblob) and the mappings (derived_data) are not  *)
(* part of the sources at hand; they are modelled from the specification.  *)
(***************************************************************************)
\* What get() can see: the buffer first, then the durable store.
BlobstoreView(d, ca) == ca \cup d

\* BonsaiDerivedMapping::get of the kind's own mapping: the commits that have
\* an entry.
BaseMappingGet(k, cs, view) == {c \in cs : MappingKey(k, c) \in view}

\* RegenerateMapping::get: commits of the overlay are reported as absent.
RegenerateMappingGet(k, cs, overlay, view) ==
    BaseMappingGet(k, {c \in cs : c \notin overlay[k]}, view)

\* RegenerateMapping::regenerate: extend the overlay of this mapping.
RegenerateMappingRegenerate(k, cs, overlay) ==
    [overlay EXCEPT ![k] = @ \cup cs]

\* BonsaiDerived::derive finds the commits it has to derive: csid itself
\* unless the mapping reports it, and then its parents in the same way.
RECURSIVE Underived(_, _, _, _)
Underived(k, c, overlay, view) ==
    IF RegenerateMappingGet(k, {c}, overlay, view) # {} THEN {}
    ELSE {c} \cup UNION {Underived(k, p, overlay, view) : p \in Parents(c)}

\* BonsaiDerived::derive: every underived commit gets its artifact written
\* and then its mapping entry put; RegenerateMapping::put takes the commit
\* out of the overlay.  The result: the keys written, the number of puts,
\* and the overlay afterwards.
BonsaiDerivedDerive(k, c, overlay, view) ==
    LET todo == Underived(k, c, overlay, view) IN
    [ writes  |-> {ArtifactKey(k, x) : x \in todo} \cup {MappingKey(k, x) : x \in todo},
      puts    |-> 2 * Cardinality(todo),
      overlay |-> [overlay EXCEPT ![k] = @ \ todo] ]

(***************************************************************************)
(* DerivedUtilsFromMapping: src/cmds/backfill_derived_data.rs 225-265      *)
(***************************************************************************)
\* Mutant of derive: the future is built but never run, nothing is derived.
derive_NotRun(k, c, overlay, view) ==
    [writes |-> {}, puts |-> 0, overlay |-> overlay]

\* Mutant of derive: derives csid without asking the mapping for it first.
derive_Forced(k, c, overlay, view) ==
    BonsaiDerivedDerive(k, c, [overlay EXCEPT ![k] = @ \cup {c}], view)

\* derive: delegates to BonsaiDerived::derive with a clone of self.mapping
\* (the clone shares the overlay) and drops the derived value.
derive(k, c, overlay, view) == BonsaiDerivedDerive(k, c, overlay, view)

\* Mutant of pending: asks the kind's own mapping, not the RegenerateMapping.
pending_IgnoresOverlay(k, csids, overlay, view) ==
    LET derived == BaseMappingGet(k, Range(csids), view) IN
    SelectSeq(csids, LAMBDA c : c \notin derived)

\* Mutant of pending: the retain is left out.
pending_KeepsAll(k, csids, overlay, view) == csids

\* Mutant of pending: a commit listed several times is kept once.
pending_Deduplicates(k, csids, overlay, view) ==
    LET derived == RegenerateMappingGet(k, Range(csids), overlay, view)
        first(i) == \A j \in 1 .. (i - 1) : csids[j] # csids[i]
        kept == {i \in 1 .. Len(csids) : csids[i] \notin derived /\ first(i)}
    IN [n \in 1 .. Cardinality(kept) |->
           csids[CHOOSE i \in kept : Cardinality({j \in kept : j < i}) = n - 1]]

\* pending: derived = self.mapping.get(csids); csids.retain(not in derived).
pending(k, csids, overlay, view) ==
    LET derived == RegenerateMappingGet(k, Range(csids), overlay, view) IN
    SelectSeq(csids, LAMBDA c : c \notin derived)

\* Mutant of regenerate: the iterator is built and dropped.
regenerate_Noop(k, csids, overlay) == overlay

\* Mutant of regenerate: one overlay shared by the mappings of all kinds.
regenerate_AllKinds(k, csids, overlay) ==
    [x \in Kinds |-> overlay[x] \cup Range(csids)]

\* regenerate: self.mapping.regenerate(csids.iter().copied()).
regenerate(k, csids, overlay) ==
    RegenerateMappingRegenerate(k, Range(csids), overlay)

(***************************************************************************)
(* SpecUtils: the calls of one process on the DerivedUtils of both kinds   *)
(* (derived_data_utils creates one DerivedUtilsFromMapping, hence one      *)
(* overlay, per kind).                                                     *)
(***************************************************************************)
UtilsCommits == 0 .. (NumUtilsCommits - 1)

\* Sets of commits a mapping can hold: derive records ancestors first.
AncestorClosed(S) == \A c \in S : Parents(c) \subseteq S
DerivedSets(U) == {S \in SUBSET U : AncestorClosed(S)}

DerivedKeys(k, S) == {MappingKey(k, c) : c \in S} \cup {ArtifactKey(k, c) : c \in S}
ChangesetKeys == {ChangesetKey(c) : c \in Commits}

\* Lists of commits passed to pending and regenerate: the empty list, one
\* commit, and two commits in either order or twice the same.
ArgLists == {<<>>} \cup {<<c>> : c \in UtilsCommits}
                   \cup {<<c, d>> : c \in UtilsCommits, d \in UtilsCommits}

\* What last holds after a call that is not observed.
NoCall == [op |-> "none", kind |-> "none", csids |-> <<>>, result |-> <<>>,
           ok |-> TRUE, puts |-> 0, repeat |-> FALSE, before |-> <<>>]

\* The history of the watched pair (K, c):
\*   "fresh"        derive(K, c) has not been called
\*   "none"         derive(K, c) has been called, and nothing below
\*   "derived"      derive(K, c) has succeeded, no regenerate naming c on K since
\*   "regenerated"  after that, regenerate on K has named c, and no derive on K
\*                  has succeeded since
\*   "rederived"    after that, derive(K, c) has succeeded, no regenerate
\*                  naming c on K since
derived_since == phase \in {"derived", "rederived"}
derive_run == phase # "fresh"

\* derive(K, c) has returned an error.
PhaseAfterDeriveFails(k, c) ==
    IF watched = <<k, c>> /\ phase = "fresh" THEN "none" ELSE phase

PhaseAfterDerive(k, c) ==
    IF watched = <<k, c>>
    THEN (IF phase \in {"regenerated", "rederived"} THEN "rederived" ELSE "derived")
    ELSE IF watched[1] = k /\ phase = "regenerated" THEN "none"
    ELSE phase

PhaseAfterRegenerate(k, csids) ==
    IF watched[1] = k /\ watched[2] \in Range(csids)
    THEN (IF phase \in {"fresh", "none"} THEN phase ELSE "regenerated")
    ELSE phase

\* What a call on kind k must leave alone: the blobstore and the overlays of
\* the other kinds, as they are before the call.
OtherState(k) ==
    [durable |-> durable, cache |-> cache,
     overlay |-> [x \in Kinds \ {k} |-> regenerate_overlay[x]]]

\* Mutant of ArtifactStore: derive is given the repo as it was before the
\* blobstore override.
ArtifactStore_NotOverridden == "durable"

\* The blobstore derive writes the derived artifacts to: the blobstore of the
\* repo it is given, which is the MemWritesBlobstore after the override of
\* lines 351-357.
ArtifactStore == IF staged THEN "overlay" ELSE "durable"

\* Mutant of MappingStore: derived_data_utils is given the repo as it was
\* before the blobstore override.
MappingStore_NotOverridden == "durable"

\* The blobstore the kind's mapping keeps its entries in: derived_data_utils
\* builds the mapping over repo.get_blobstore() of the repo it is given, the
\* overridden one in the backfill.
MappingStore == IF staged THEN "overlay" ELSE "durable"

StoreOf(key) == IF key[1] = "mapping" THEN MappingStore ELSE ArtifactStore

\* put of a set of keys, each into the blobstore its writer holds: the
\* MemWritesBlobstore buffers it, the durable store takes it at once.
PutAll(keys) ==
    /\ cache' = cache \cup {x \in keys : StoreOf(x) = "overlay"}
    /\ durable' = durable \cup {x \in keys : StoreOf(x) = "durable"}

\* derive(ctx, repo, csid) returns Ok.  The call is recorded in last when
\* it is a call for the watched pair.
UtilsDerive(k, c) ==
    LET r == derive(k, c, regenerate_overlay, BlobstoreView(durable, cache)) IN
    /\ PutAll(r.writes)
    /\ regenerate_overlay' = r.overlay
    /\ phase' = PhaseAfterDerive(k, c)
    /\ last' = IF watched = <<k, c>>
               THEN [op |-> "derive", kind |-> k, csids |-> <<c>>, result |-> <<>>,
                     ok |-> TRUE, puts |-> r.puts, repeat |-> derived_since, before |-> <<>>]
               ELSE NoCall
    /\ UNCHANGED <<staged, watched, wvars, bvars, hvars, tvars, evars, dvars, ivars>>

\* derive(ctx, repo, csid) returns Err: a dependency could not be obtained.
UtilsDeriveFails(k, c) ==
    /\ phase' = PhaseAfterDeriveFails(k, c)
    /\ last' = IF watched = <<k, c>>
               THEN [op |-> "derive", kind |-> k, csids |-> <<c>>, result |-> <<>>,
                     ok |-> FALSE, puts |-> 0, repeat |-> FALSE, before |-> <<>>]
               ELSE NoCall
    /\ UNCHANGED <<svars, watched, wvars, bvars, hvars, tvars, evars, dvars, ivars>>

\* pending(ctx, repo, csids) returns Ok(result); the calls for the watched
\* kind are the ones observed.
UtilsPending(k, csids) ==
    /\ k = watched[1]
    /\ last' = [op |-> "pending", kind |-> k, csids |-> csids,
                result |-> pending(k, csids, regenerate_overlay,
                                   BlobstoreView(durable, cache)),
                ok |-> TRUE, puts |-> 0, repeat |-> FALSE, before |-> <<>>]
    /\ UNCHANGED <<svars, watched, phase, wvars, bvars, hvars, tvars, evars, dvars, ivars>>

\* regenerate(csids)
UtilsRegenerate(k, csids) ==
    /\ regenerate_overlay' = regenerate(k, csids, regenerate_overlay)
    /\ phase' = PhaseAfterRegenerate(k, csids)
    /\ last' = [op |-> "regenerate", kind |-> k, csids |-> <<>>, result |-> <<>>,
                ok |-> TRUE, puts |-> 0, repeat |-> FALSE,
                before |-> OtherState(k)]
    /\ UNCHANGED <<durable, cache, staged, watched, wvars, bvars, hvars, tvars, evars, dvars, ivars>>

NextUtils ==
    \/ \E k \in Kinds, c \in UtilsCommits : UtilsDerive(k, c)
    \/ \E k \in Kinds, c \in UtilsCommits : UtilsDeriveFails(k, c)
    \/ \E k \in Kinds, csids \in ArgLists : UtilsPending(k, csids)
    \/ \E k \in Kinds, csids \in ArgLists : UtilsRegenerate(k, csids)


(***************************************************************************)
(* Claims about DerivedUtilsFromMapping.                                   *)
(***************************************************************************)
View == BlobstoreView(durable, cache)
HasEntry(k, c) == MappingKey(k, c) \in View
LastPending == last.op = "pending"
WatchedListed == last.kind = watched[1] /\ watched[2] \in Range(last.csids)

\* C2: for one kind, pending(commits) returns exactly the elements of the
\* input list, in input order, for which the kind's mapping has no entry or
\* which are in the kind's regenerate overlay, and no other commit.
C2_PendingExact ==
    LastPending =>
        last.result =
            SelectSeq(last.csids,
                      LAMBDA c : \/ ~HasEntry(last.kind, c)
                                 \/ c \in regenerate_overlay[last.kind])

\* A pending call over two commits that kept one for its overlay membership
\* (it has a mapping entry) and dropped the other.
C2_Witness ==
    /\ LastPending
    /\ Len(last.csids) = 2
    /\ Len(last.result) = 1
    /\ HasEntry(last.kind, last.result[1])
    /\ last.result[1] \in regenerate_overlay[last.kind]

\* C3: before any derive(K, c) has run, and with no mapping entry for c,
\* pending over a list containing c includes c; after derive(K, c) has
\* succeeded and no regenerate of c has followed, pending for K over a list
\* containing c excludes c.
C3_PendingAroundDerive ==
    (LastPending /\ WatchedListed) =>
        /\ (~derive_run /\ ~HasEntry(watched[1], watched[2]))
               => watched[2] \in Range(last.result)
        /\ derived_since => watched[2] \notin Range(last.result)

\* pending was called over a list of two commits, c among them, after
\* derive(K, c) had succeeded, and it dropped c.
C3_Witness ==
    /\ LastPending /\ WatchedListed
    /\ phase = "derived"
    /\ Len(last.csids) = 2
    /\ watched[2] \notin Range(last.result)

\* C4: derive is idempotent: a second derive of the same commit for the same
\* kind, with no regenerate in between, makes no write to the mapping or the
\* content store and leaves the mapping entry and the artifact in place.
C4_DeriveIdempotent ==
    (last.op = "derive" /\ last.ok) =>
        /\ HasEntry(last.kind, last.csids[1])
        /\ ArtifactKey(last.kind, last.csids[1]) \in View
        /\ last.repeat => last.puts = 0

\* The second of two successful derive calls for the watched pair.
C4_Witness ==
    /\ last.op = "derive" /\ last.ok /\ last.repeat
    /\ last.csids[1] > 0

\* C5: after regenerate([c]) on K, pending([c]) for K includes c although an
\* earlier derive(K, c) succeeded; after a following successful derive(K, c),
\* pending([c]) for K excludes c again.
C5_RegenerateThenDerive ==
    (LastPending /\ last.kind = watched[1] /\ last.csids = <<watched[2]>>) =>
        /\ phase = "regenerated" => last.result = <<watched[2]>>
        /\ phase = "rederived" => last.result = <<>>

\* pending([c]) after derive, regenerate and derive again.
C5_Witness ==
    /\ LastPending /\ last.kind = watched[1] /\ last.csids = <<watched[2]>>
    /\ phase = "rederived"
    /\ last.result = <<>>

\* pending([c]) after derive and regenerate.
C5_WitnessRegenerated ==
    /\ LastPending /\ last.kind = watched[1] /\ last.csids = <<watched[2]>>
    /\ phase = "regenerated"
    /\ last.result = <<watched[2]>>

\* C6: regenerate(commits) on kind K changes only K's regenerate overlay: it
\* deletes or alters no entry of any mapping (no blobstore key), and the
\* result of pending for every other kind is what it was.
C6_RegenerateFrame ==
    last.op = "regenerate" =>
        /\ durable = last.before.durable
        /\ cache = last.before.cache
        /\ \A k \in Kinds \ {last.kind} :
               /\ regenerate_overlay[k] = last.before.overlay[k]
               /\ \A csids \in ArgLists :
                      pending(k, csids, regenerate_overlay, View)
                      = pending(k, csids,
                                [x \in Kinds |-> IF x = last.kind THEN {}
                                                 ELSE last.before.overlay[x]],
                                BlobstoreView(last.before.durable, last.before.cache))

\* regenerate on K has named a commit that another kind holds an entry for
\* and does not regenerate.
C6_Witness ==
    /\ last.op = "regenerate"
    /\ \E c \in regenerate_overlay[last.kind], k \in Kinds \ {last.kind} :
           /\ HasEntry(k, c)
           /\ HasEntry(last.kind, c)
           /\ c \notin regenerate_overlay[k]

(***************************************************************************)
(* subcommand_backfill: src/cmds/backfill_derived_data.rs 340-451          *)
(***************************************************************************)
\* A ChangesetEntry of the snapshot; the driver reads cs_id and gen.
Entry(c) == [cs_id |-> c, gen |-> Gen(c)]

\* Vec::sort_by_key is a stable sort: an entry goes behind the entries whose
\* key is not greater.
RECURSIVE InsertByKey(_, _)
InsertByKey(sorted, e) ==
    IF sorted = <<>> THEN <<e>>
    ELSE IF sorted[Len(sorted)].gen <= e.gen THEN Append(sorted, e)
    ELSE Append(InsertByKey(SubSeq(sorted, 1, Len(sorted) - 1), e),
                sorted[Len(sorted)])

\* Mutant of SortByKey: the entries are left in file order.
SortByKey_FileOrder(entries) == entries

RECURSIVE SortByKey(_)
SortByKey(entries) ==
    IF entries = <<>> THEN <<>>
    ELSE InsertByKey(SortByKey(SubSeq(entries, 1, Len(entries) - 1)),
                     entries[Len(entries)])

\* Iterator::skip(n)
SkipEntries(entries, n) ==
    IF n >= Len(entries) THEN <<>> ELSE SubSeq(entries, n + 1, Len(entries))

\* Mutant of SortedSkipped: the entries are skipped before they are sorted.
SortedSkipped_SkipFirst(entries, n) ==
    [i \in 1 .. Len(SortByKey(SkipEntries(entries, n))) |->
        SortByKey(SkipEntries(entries, n))[i].cs_id]

\* changesets.sort_by_key(gen); into_iter().skip(skip).map(cs_id).collect()
SortedSkipped(entries, n) ==
    [i \in 1 .. Len(SkipEntries(SortByKey(entries), n)) |->
        SkipEntries(SortByKey(entries), n)[i].cs_id]

\* Stream::chunks(CHUNK_SIZE): the next chunk after `pos` items.
NextChunk(cs, pos) == SubSeq(cs, pos + 1, Min(pos + CHUNK_SIZE, Len(cs)))

\* The snapshot files: lists of entries of distinct commits, in any order,
\* and a file that does not decode.
Snapshots ==
    {[decodes |-> TRUE, entries |-> [i \in 1 .. Len(s) |-> Entry(s[i])]] :
        s \in {t \in UNION {[1 .. n -> Commits] : n \in 0 .. NumCommits} :
                  \A i, j \in 1 .. Len(t) : i # j => t[i] # t[j]}}
        \cup {[decodes |-> FALSE, entries |-> <<>>]}

\* MemWritesBlobstore::persist, modelled from the specification: one bulk
\* write of the buffer to the durable store, then the buffer is cleared.
PersistDurable(d, ca) == d \cup ca

\* The timed() callback: generated_count.fetch_add(chunk_size), where
\* chunk_size is the length of the pending part of the chunk.  It runs for
\* the Ok and for the Err result.
Timed == generated_count' = generated_count + Len(chunk_pending)

\* BonsaiDerived::derive returns an error part way: the derived data of some
\* of the commits it had to derive (parents first) is written, and possibly
\* the artifact of one more commit whose mapping entry was not put yet.
DeriveFailsWrites(k, c, overlay, view) ==
    LET todo == Underived(k, c, overlay, view)
        done == {T \in SUBSET (todo \ {c}) : \A x \in T : Parents(x) \cap todo \subseteq T}
        next(S) == {y \in todo \ S : Parents(y) \cap todo \subseteq S}
    IN UNION {{DerivedKeys(k, S) \cup A :
                  A \in {{}} \cup {{ArtifactKey(k, y)} : y \in next(S)}} : S \in done}

\* What last_persist holds before the first persist call.
NoPersist == [cache |-> {}, durable |-> {}]

\* parse_serialized_commits fails.
BackfillParseFails ==
    /\ bpc = "start"
    /\ ~snapshot.decodes
    /\ bpc' = "error"
    /\ err' = "parse"
    /\ UNCHANGED <<snapshot, skip, regenerate_flag, derived_data_type, changesets,
                   position, chunk_pending, di, in_flight, generated_count>>
    /\ UNCHANGED <<wvars, svars, uvars, hvars, tvars, evars, dvars, ivars>>

\* Mutant of BackfillLoad: the regenerate flag is not looked at.
BackfillLoad_IgnoresFlag ==
    /\ bpc = "start"
    /\ snapshot.decodes
    /\ changesets' = SortedSkipped(snapshot.entries, skip)
    /\ bpc' = "chunk"
    /\ UNCHANGED <<snapshot, skip, regenerate_flag, derived_data_type,
                   position, chunk_pending, di, in_flight, generated_count, err>>
    /\ UNCHANGED <<wvars, svars, uvars, hvars, tvars, evars, dvars, ivars>>

\* Lines 369-384: sort, skip, and regenerate if asked to.
BackfillLoad ==
    /\ bpc = "start"
    /\ snapshot.decodes
    /\ changesets' = SortedSkipped(snapshot.entries, skip)
    /\ IF regenerate_flag
       THEN /\ regenerate_overlay' =
                   regenerate(derived_data_type, changesets', regenerate_overlay)
            /\ regenerated' = Append(regenerated, changesets')
       ELSE UNCHANGED <<regenerate_overlay, regenerated>>
    /\ bpc' = "chunk"
    /\ UNCHANGED <<snapshot, skip, regenerate_flag, derived_data_type,
                   position, chunk_pending, di, in_flight, generated_count, err>>
    /\ UNCHANGED <<durable, cache, staged, derived0, chunk_log, derive_log,
                   persist_calls, chunk_durable, last_persist>>
    /\ UNCHANGED <<wvars, uvars, tvars, evars, dvars, ivars>>

\* Lines 391-406: the next chunk is prefetched and its pending part computed.
BackfillChunk ==
    /\ bpc = "chunk"
    /\ position < Len(changesets)
    /\ LET chunk == NextChunk(changesets, position) IN
        /\ chunk_log' = Append(chunk_log, chunk)
        /\ chunk_pending' = pending(derived_data_type, chunk, regenerate_overlay,
                                    BlobstoreView(durable, cache))
        /\ position' = position + Len(chunk)
    /\ di' = 1
    /\ chunk_durable' = durable
    /\ bpc' = "derive"
    /\ UNCHANGED <<snapshot, skip, regenerate_flag, derived_data_type, changesets,
                   in_flight, generated_count, err>>
    /\ UNCHANGED <<derived0, regenerated, derive_log, persist_calls, last_persist>>
    /\ UNCHANGED <<wvars, svars, uvars, tvars, evars, dvars, ivars>>

\* Lines 391-406: a blobstore get of the prefetch, or pending, fails.
BackfillChunkFails ==
    /\ bpc = "chunk"
    /\ position < Len(changesets)
    /\ LET chunk == NextChunk(changesets, position) IN
        /\ chunk_log' = Append(chunk_log, chunk)
        /\ position' = position + Len(chunk)
    /\ \E e \in {"prefetch", "pending"} : err' = e
    /\ chunk_durable' = durable
    /\ bpc' = "error"
    /\ UNCHANGED <<snapshot, skip, regenerate_flag, derived_data_type, changesets,
                   chunk_pending, di, in_flight, generated_count>>
    /\ UNCHANGED <<derived0, regenerated, derive_log, persist_calls, last_persist>>
    /\ UNCHANGED <<wvars, svars, uvars, tvars, evars, dvars, ivars>>

\* Mutant of BackfillDeriveStart: the derive futures of the chunk are run
\* through buffered(CHUNK_SIZE), as the prefetch is.
BackfillDeriveStart_Buffered ==
    /\ bpc = "derive"
    /\ Cardinality(in_flight) < CHUNK_SIZE
    /\ \E j \in di .. Len(chunk_pending) :
        /\ chunk_pending[j] \notin in_flight
        /\ \A i \in di .. (j - 1) : chunk_pending[i] \in in_flight
        /\ in_flight' = in_flight \cup {chunk_pending[j]}
        /\ derive_log' = Append(derive_log, chunk_pending[j])
    /\ UNCHANGED <<snapshot, skip, regenerate_flag, derived_data_type, bpc,
                   changesets, position, chunk_pending, di, generated_count, err>>
    /\ UNCHANGED <<derived0, regenerated, chunk_log, persist_calls,
                   chunk_durable, last_persist>>
    /\ UNCHANGED <<wvars, svars, uvars, tvars, evars, dvars, ivars>>

\* Lines 410-418: the inner for_each takes the next pending commit and calls
\* derive for it.  for_each runs the future of one item to its end before it
\* takes the next item from the stream.
BackfillDeriveStart ==
    /\ bpc = "derive"
    /\ in_flight = {}
    /\ di <= Len(chunk_pending)
    /\ in_flight' = {chunk_pending[di]}
    /\ derive_log' = Append(derive_log, chunk_pending[di])
    /\ UNCHANGED <<snapshot, skip, regenerate_flag, derived_data_type, bpc,
                   changesets, position, chunk_pending, di, generated_count, err>>
    /\ UNCHANGED <<derived0, regenerated, chunk_log, persist_calls,
                   chunk_durable, last_persist>>
    /\ UNCHANGED <<wvars, svars, uvars, tvars, evars, dvars, ivars>>

\* Mutant of BackfillDerive: the driver goes on to the next commit without
\* waiting for the derive future to complete.
BackfillDerive_NoWait ==
    /\ bpc = "derive"
    /\ \E c \in in_flight : in_flight' = in_flight \ {c}
    /\ di' = di + 1
    /\ UNCHANGED <<snapshot, skip, regenerate_flag, derived_data_type, bpc,
                   changesets, position, chunk_pending, generated_count, err>>
    /\ UNCHANGED <<wvars, svars, uvars, hvars, tvars, evars, dvars, ivars>>

\* Lines 410-418: a derive future in flight completes with Ok.
BackfillDerive ==
    /\ bpc = "derive"
    /\ \E c \in in_flight :
        LET r == derive(derived_data_type, c, regenerate_overlay,
                        BlobstoreView(durable, cache)) IN
        /\ PutAll(r.writes)
        /\ regenerate_overlay' = r.overlay
        /\ in_flight' = in_flight \ {c}
    /\ di' = di + 1
    /\ UNCHANGED <<snapshot, skip, regenerate_flag, derived_data_type, bpc,
                   changesets, position, chunk_pending, generated_count, err>>
    /\ UNCHANGED <<staged, hvars>>
    /\ UNCHANGED <<wvars, uvars, tvars, evars, dvars, ivars>>

\* Mutant of BackfillDeriveFails: the error of derive is dropped and the
\* inner for_each goes on with the next commit.
BackfillDeriveFails_Ignored ==
    /\ bpc = "derive"
    /\ \E c \in in_flight : in_flight' = in_flight \ {c}
    /\ di' = di + 1
    /\ err' = "derive"
    /\ UNCHANGED <<snapshot, skip, regenerate_flag, derived_data_type, bpc,
                   changesets, position, chunk_pending, generated_count>>
    /\ UNCHANGED <<wvars, svars, uvars, hvars, tvars, evars, dvars, ivars>>

\* Lines 410-418, 423-447: a derive future in flight completes with an error;
\* the inner for_each ends, and_then is skipped, the statistics are printed,
\* the outer for_each ends.
BackfillDeriveFails ==
    /\ bpc = "derive"
    /\ \E c \in in_flight :
        \E w \in DeriveFailsWrites(derived_data_type, c, regenerate_overlay,
                                   BlobstoreView(durable, cache)) :
            /\ PutAll(w)
            /\ regenerate_overlay' =
                   [regenerate_overlay EXCEPT ![derived_data_type] =
                       @ \ {x \in Commits : MappingKey(derived_data_type, x) \in w}]
            /\ in_flight' = in_flight \ {c}
    /\ Timed
    /\ err' = "derive"
    /\ bpc' = "error"
    /\ UNCHANGED <<snapshot, skip, regenerate_flag, derived_data_type,
                   changesets, position, chunk_pending, di>>
    /\ UNCHANGED <<staged, hvars>>
    /\ UNCHANGED <<wvars, uvars, tvars, evars, dvars, ivars>>

\* Mutant of BackfillPersist: persist is called on a MemWritesBlobstore that is
\* not the one the repo writes to.
BackfillPersist_OtherStore ==
    /\ bpc = "derive"
    /\ in_flight = {}
    /\ di > Len(chunk_pending)
    /\ last_persist' = [cache |-> cache, durable |-> durable]
    /\ persist_calls' = persist_calls + 1
    /\ Timed
    /\ bpc' = "chunk"
    /\ UNCHANGED <<snapshot, skip, regenerate_flag, derived_data_type,
                   changesets, position, chunk_pending, di, in_flight, err>>
    /\ UNCHANGED <<svars, derived0, regenerated, chunk_log, derive_log, chunk_durable>>
    /\ UNCHANGED <<wvars, uvars, tvars, evars, dvars, ivars>>

\* Mutant of BackfillPersist: persist is left out for a chunk without a
\* pending commit.
BackfillPersist_SkipsEmpty ==
    /\ bpc = "derive"
    /\ in_flight = {}
    /\ di > Len(chunk_pending)
    /\ IF chunk_pending = <<>>
       THEN UNCHANGED <<last_persist, durable, cache, persist_calls>>
       ELSE /\ last_persist' = [cache |-> cache, durable |-> durable]
            /\ durable' = PersistDurable(durable, cache)
            /\ cache' = {}
            /\ persist_calls' = persist_calls + 1
    /\ Timed
    /\ bpc' = "chunk"
    /\ UNCHANGED <<snapshot, skip, regenerate_flag, derived_data_type,
                   changesets, position, chunk_pending, di, in_flight, err>>
    /\ UNCHANGED <<staged, regenerate_overlay, derived0, regenerated, chunk_log,
                   derive_log, chunk_durable>>
    /\ UNCHANGED <<wvars, uvars, tvars, evars, dvars, ivars>>

\* Lines 419-447: all pending commits of the chunk are derived; persist of the
\* memblobstore the repo was overridden with returns Ok.
BackfillPersist ==
    /\ bpc = "derive"
    /\ in_flight = {}
    /\ di > Len(chunk_pending)
    /\ last_persist' = [cache |-> cache, durable |-> durable]
    /\ durable' = PersistDurable(durable, cache)
    /\ cache' = {}
    /\ persist_calls' = persist_calls + 1
    /\ Timed
    /\ bpc' = "chunk"
    /\ UNCHANGED <<snapshot, skip, regenerate_flag, derived_data_type,
                   changesets, position, chunk_pending, di, in_flight, err>>
    /\ UNCHANGED <<staged, regenerate_overlay, derived0, regenerated, chunk_log,
                   derive_log, chunk_durable>>
    /\ UNCHANGED <<wvars, uvars, tvars, evars, dvars, ivars>>

\* Mutant of BackfillPersistFails: the error of persist is dropped and the
\* outer for_each goes on with the next chunk.
BackfillPersistFails_Ignored ==
    /\ bpc = "derive"
    /\ in_flight = {}
    /\ di > Len(chunk_pending)
    /\ last_persist' = [cache |-> cache, durable |-> durable]
    /\ persist_calls' = persist_calls + 1
    /\ Timed
    /\ err' = "persist"
    /\ bpc' = "chunk"
    /\ UNCHANGED <<snapshot, skip, regenerate_flag, derived_data_type,
                   changesets, position, chunk_pending, di, in_flight>>
    /\ UNCHANGED <<svars, derived0, regenerated, chunk_log, derive_log, chunk_durable>>
    /\ UNCHANGED <<wvars, uvars, tvars, evars, dvars, ivars>>

\* Lines 419-447: persist returns an error: the bulk write failed and the
\* buffer stays as it is.
BackfillPersistFails ==
    /\ bpc = "derive"
    /\ in_flight = {}
    /\ di > Len(chunk_pending)
    /\ last_persist' = [cache |-> cache, durable |-> durable]
    /\ persist_calls' = persist_calls + 1
    /\ Timed
    /\ err' = "persist"
    /\ bpc' = "error"
    /\ UNCHANGED <<snapshot, skip, regenerate_flag, derived_data_type,
                   changesets, position, chunk_pending, di, in_flight>>
    /\ UNCHANGED <<svars, derived0, regenerated, chunk_log, derive_log, chunk_durable>>
    /\ UNCHANGED <<wvars, uvars, tvars, evars, dvars, ivars>>

\* The stream of chunks is exhausted: the backfill returns Ok.
BackfillDone ==
    /\ bpc = "chunk"
    /\ position = Len(changesets)
    /\ bpc' = "done"
    /\ UNCHANGED <<snapshot, skip, regenerate_flag, derived_data_type,
                   changesets, position, chunk_pending, di, in_flight,
                   generated_count, err>>
    /\ UNCHANGED <<wvars, svars, uvars, hvars, tvars, evars, dvars, ivars>>

\* The process dies while it works on the chunks: the MemWritesBlobstore
\* buffer, the regenerate overlay and the futures in flight are gone, the
\* durable store stays.
BackfillCrash ==
    /\ bpc \in {"chunk", "derive"}
    /\ cache' = {}
    /\ regenerate_overlay' = [k \in Kinds |-> {}]
    /\ in_flight' = {}
    /\ err' = "crash"
    /\ bpc' = "crashed"
    /\ UNCHANGED <<snapshot, skip, regenerate_flag, derived_data_type,
                   changesets, position, chunk_pending, di, generated_count>>
    /\ UNCHANGED <<durable, staged, hvars>>
    /\ UNCHANGED <<wvars, uvars, tvars, evars, dvars, ivars>>

Next ==
    \/ BackfillParseFails
    \/ BackfillLoad
    \/ BackfillChunk
    \/ BackfillChunkFails
    \/ BackfillDeriveStart
    \/ BackfillDerive
    \/ BackfillDeriveFails
    \/ BackfillPersist
    \/ BackfillPersistFails
    \/ BackfillDone
    \/ BackfillCrash

(***************************************************************************)
(* Claims about the backfill.                                              *)
(***************************************************************************)
RECURSIVE Flatten(_)
Flatten(ss) == IF ss = <<>> THEN <<>> ELSE ss[1] \o Flatten(Tail(ss))

Count(s, c) == Cardinality({i \in 1 .. Len(s) : s[i] = c})

SnapshotCommits == {snapshot.entries[i].cs_id : i \in 1 .. Len(snapshot.entries)}
SnapshotList == [i \in 1 .. Len(snapshot.entries) |-> snapshot.entries[i].cs_id]
SnapshotPos(c) == CHOOSE i \in 1 .. Len(snapshot.entries) : snapshot.entries[i].cs_id = c

\* c comes before d in the snapshot stably sorted by generation number.
SortsBefore(c, d) ==
    \/ Gen(c) < Gen(d)
    \/ Gen(c) = Gen(d) /\ SnapshotPos(c) < SnapshotPos(d)

\* The first `skip` commits of the sorted snapshot, and the others.
Skipped ==
    LET e == snapshot.entries
        before(i) == {j \in 1 .. Len(e) :
                         \/ e[j].gen < e[i].gen
                         \/ e[j].gen = e[i].gen /\ j < i}
    IN {e[i].cs_id : i \in {j \in 1 .. Len(e) : Cardinality(before(j)) < skip}}
Remaining == SnapshotCommits \ Skipped

\* C7: the backfill processes the commits in the order of the snapshot
\* stably sorted by ascending generation number: of two processed commits
\* the one with the smaller generation number (on a tie, the one earlier in
\* the snapshot) is handed out first, its chunk has an index less than or
\* equal to the other's, and derive is called in that order too.
C7_BackfillOrder ==
    LET processed == Flatten(chunk_log) IN
    /\ \A i, j \in 1 .. Len(processed) :
           i < j => SortsBefore(processed[i], processed[j])
    /\ \A a, b \in 1 .. Len(chunk_log) :
           \A A \in Range(chunk_log[a]), B \in Range(chunk_log[b]) :
               Gen(A) < Gen(B) => a <= b
    /\ \A i, j \in 1 .. Len(derive_log) :
           i < j => SortsBefore(derive_log[i], derive_log[j])

\* A finished run of two chunks over a snapshot that was not sorted and that
\* has two commits of the same generation number.
C7_Witness ==
    /\ bpc = "done"
    /\ Len(chunk_log) >= 2
    /\ \E i, j \in 1 .. Len(snapshot.entries) :
           i < j /\ snapshot.entries[i].gen > snapshot.entries[j].gen
    /\ \E c, d \in Range(Flatten(chunk_log)) : c # d /\ Gen(c) = Gen(d)

C9_BackfillSkip ==
    LET remaining == Remaining
        handed == Flatten(chunk_log)
        marked == Flatten(regenerated)
    IN
    /\ \A c \in Commits \ remaining :
           /\ Count(handed, c) = 0
           /\ Count(derive_log, c) = 0
           /\ Count(marked, c) = 0
    /\ \A c \in remaining : Count(handed, c) <= 1
    /\ bpc \notin {"start", "error"} =>
           /\ Range(changesets) = remaining
           /\ regenerate_flag => regenerated = <<changesets>>
    /\ bpc = "done" => \A c \in remaining : Count(handed, c) = 1

\* A finished run that skipped some entries of an unsorted snapshot and
\* processed others.
C9_Witness ==
    /\ bpc = "done"
    /\ skip > 0
    /\ Skipped # {} /\ Remaining # {}
    /\ regenerate_flag
    /\ SnapshotList[1] \in Remaining
    /\ \E i \in 1 .. Len(SnapshotList) : i > skip /\ SnapshotList[i] \in Skipped

\* C10: if derive fails for a commit of a chunk, the chunk is aborted: no
\* further derive is started (the failed call is the last one), persist is not
\* called for that chunk (it was called for the chunks before), no later chunk
\* is prefetched, checked or derived (the failing chunk is the last one handed
\* out, and nothing can happen any more), and the backfill returns the error.
C10_DeriveErrorAborts ==
    err = "derive" =>
        /\ bpc = "error"
        /\ ~ENABLED Next
        /\ persist_calls = Len(chunk_log) - 1
        /\ derive_log # <<>>
        /\ derive_log[Len(derive_log)] = chunk_pending[di]
        /\ chunk_pending[di] \in Range(chunk_log[Len(chunk_log)])

\* derive failed in a chunk with a pending commit still to derive and with a
\* chunk still to come.
C10_Witness ==
    /\ err = "derive"
    /\ di < Len(chunk_pending)
    /\ position < Len(changesets)
    /\ persist_calls = 0

\* A pending commit of the current chunk whose derive has not been started.
ChunkCommitWaits ==
    \E j \in di .. Len(chunk_pending) : chunk_pending[j] \notin in_flight

C12_DeriveWritesStaged ==
    (bpc = "derive" \/ err = "derive") =>
        /\ durable = chunk_durable
        /\ \A i \in 1 .. (di - 1) :
               /\ MappingKey(derived_data_type, chunk_pending[i]) \in cache
               /\ ArtifactKey(derived_data_type, chunk_pending[i]) \in cache

\* In the second chunk or a later one, a commit has been derived and its
\* persist has not been called yet.
C12_Witness ==
    /\ bpc = "derive"
    /\ persist_calls >= 1
    /\ di > 1
    /\ MappingKey(derived_data_type, chunk_pending[1]) \notin durable

\* C13: after a successful persist the durable store holds every object that
\* was in the buffer when persist was called, besides what it held before,
\* and the buffer is empty.  (A key stands for the object and its value.)
C13_PersistFlushes ==
    (persist_calls > 0 /\ bpc \in {"chunk", "done"} /\ err = "none") =>
        /\ cache = {}
        /\ last_persist.cache \subseteq durable
        /\ durable = last_persist.durable \cup last_persist.cache

\* persist has returned Ok for a chunk that had derived commits, and another
\* chunk is still to come.
C13_Witness ==
    /\ bpc = "chunk"
    /\ err = "none"
    /\ persist_calls > 0
    /\ last_persist.cache # {}
    /\ last_persist.cache \ last_persist.durable # {}
    /\ position < Len(changesets)

\* C14: if persist fails, the buffer still holds every object it held before
\* the call, and the backfill ends with that error: the failing chunk is the
\* last one handed out and nothing can happen any more.
C14_PersistErrorKeepsBuffer ==
    err = "persist" =>
        /\ bpc = "error"
        /\ cache = last_persist.cache
        /\ persist_calls = Len(chunk_log)
        /\ ~ENABLED Next

\* persist failed with objects in the buffer and with a chunk still to come.
C14_Witness ==
    /\ err = "persist"
    /\ cache # {}
    /\ position < Len(changesets)

C26_RegenerateRederives ==
    (regenerate_flag /\ bpc \notin {"start", "crashed"} /\ err # "parse") =>
        LET k == derived_data_type
            remaining == Remaining
        IN
        /\ regenerated = <<changesets>>
        /\ Range(changesets) = remaining
        /\ chunk_log = <<>> => regenerate_overlay[k] = remaining
        /\ (bpc = "derive" \/ err \in {"derive", "persist"}) =>
               chunk_pending = chunk_log[Len(chunk_log)]
        /\ Len(derive_log) <= Len(changesets)
        /\ derive_log = SubSeq(changesets, 1, Len(derive_log))
        /\ \A c \in in_flight : c \in regenerate_overlay[k]
        /\ bpc = "done" =>
               /\ derive_log = changesets
               /\ \A c \in remaining :
                      /\ Count(derive_log, c) = 1
                      /\ c \notin regenerate_overlay[k]
                      /\ HasEntry(k, c)

\* A finished run with the regenerate flag over two chunks, with remaining
\* commits that had derived data at the start and with skipped commits.
C26_Witness ==
    /\ bpc = "done"
    /\ regenerate_flag
    /\ Len(chunk_log) >= 2
    /\ Remaining \cap derived0 # {}
    /\ derive_log = changesets
    /\ Skipped # {}

\* C27: persist is called exactly once for every chunk, after all derive
\* calls of the chunk have completed with Ok, also when no commit of the
\* chunk was pending; the next chunk is prefetched and checked only after
\* that persist has completed; a run without error over n commits calls
\* persist ceil(n / CHUNK_SIZE) times.
C27_PersistOncePerChunk ==
    LET k == derived_data_type
        chunks == Len(chunk_log)
    IN
    /\ bpc = "derive" => persist_calls = chunks - 1
    /\ err = "derive" => persist_calls = chunks - 1
    /\ (bpc \in {"chunk", "done"} \/ err = "persist") =>
           /\ persist_calls = chunks
           /\ chunks >= 1 =>
                  /\ in_flight = {}
                  /\ di = Len(chunk_pending) + 1
                  /\ \A c \in Range(chunk_log[chunks]) :
                         MappingKey(k, c)
                             \in last_persist.cache \cup last_persist.durable
    /\ bpc = "done" =>
           persist_calls = (Len(changesets) + CHUNK_SIZE - 1) \div CHUNK_SIZE

\* A finished run of two chunks, the last of them not full and without a
\* pending commit, the first with one.
C27_Witness ==
    /\ bpc = "done"
    /\ Len(chunk_log) = 2
    /\ Len(chunk_log[2]) < CHUNK_SIZE
    /\ chunk_pending = <<>>
    /\ derive_log # <<>>
    /\ persist_calls = 2

\* The place of commit c in the list the backfill works on.
ChangesetsPos(c) == CHOOSE i \in 1 .. Len(changesets) : changesets[i] = c

\* C29: derive is started for a commit only when derive has completed with
\* Ok for every pending commit before it in the generation-sorted list, the
\* commits of its own chunk included: while a derive is in flight it is the
\* only one, it is the last call made, every commit before it in the list
\* has its derived data and is out of the overlay, and the calls made so far
\* are in nondecreasing order of the generation number.
C29_DeriveAfterPredecessors ==
    LET k == derived_data_type IN
    /\ Cardinality(in_flight) <= 1
    /\ \A c \in in_flight :
           /\ derive_log # <<>>
           /\ derive_log[Len(derive_log)] = c
           /\ c \in Range(changesets)
           /\ \A j \in 1 .. (ChangesetsPos(c) - 1) :
                  /\ HasEntry(k, changesets[j])
                  /\ changesets[j] \notin regenerate_overlay[k]
           /\ \A i \in 1 .. (Len(derive_log) - 1) :
                  /\ HasEntry(k, derive_log[i])
                  /\ ChangesetsPos(derive_log[i]) < ChangesetsPos(c)
    /\ \A i, j \in 1 .. Len(derive_log) :
           i < j => Gen(derive_log[i]) <= Gen(derive_log[j])

\* The derive of the second pending commit of the second chunk is in flight;
\* commits of the first chunk were derived too.
C29_Witness ==
    /\ bpc = "derive"
    /\ in_flight # {}
    /\ di = 2
    /\ Len(chunk_log) = 2
    /\ Len(derive_log) >= 3

(***************************************************************************)
(* subcommand_tail: src/cmds/backfill_derived_data.rs 453-540              *)
(***************************************************************************)
\* The values of the derived_data_types argument: no, one or two names of
\* kinds, and a name derived_data_utils does not know.
TailTypeLists == {<<>>} \cup {<<k>> : k \in Kinds}
                        \cup {<<k, l>> : k \in Kinds, l \in Kinds}
                        \cup {<<"unknown">>}

\* The lists of heads the bookmarks can return: up to MaxHeads commits, in
\* any order, a commit possibly under several bookmarks.
HeadLists == UNION {[1 .. n -> UtilsCommits] : n \in 0 .. MaxHeads}

\* Mutant of TailDeriveFutures: the closure derives with the first of the
\* DerivedUtils, whatever kind the pending list is of.
TailDeriveFutures_FirstKind(pend) ==
    Flatten([i \in 1 .. Len(pend) |->
                [j \in 1 .. Len(pend[i]) |-> <<1, pend[i][j]>>]])

\* Lines 489-509: for each kind, in the order of the argument, the derive
\* futures of its pending heads, made by that kind's DerivedUtils; then the
\* lists are flattened into one.
TailDeriveFutures(pend) ==
    Flatten([i \in 1 .. Len(pend) |->
                [j \in 1 .. Len(pend[i]) |-> <<i, pend[i][j]>>]])

\* FuturesOrdered yields the results in the order of the stream: the futures
\* of the queue `q` that leave it when those of `c` are complete.
Drained(q, c) == {j \in q : \A m \in q : m <= j => m \in c}

\* Lines 459-464: derived_data_utils knows every name.
TailStart ==
    /\ tpc = "start"
    /\ \A i \in 1 .. Len(derived_data_types) : derived_data_types[i] \in Kinds
    /\ tpc' = "list"
    /\ UNCHANGED <<derived_data_types, heads, tail_pending, tail_work, tail_next,
                   tail_queue, tail_complete, tail_slept, tail_err, tail_calls,
                   tail_ran>>
    /\ UNCHANGED <<wvars, svars, uvars, bvars, hvars, evars, dvars, ivars>>

\* Lines 459-464: derived_data_utils returns an error for a name; the loop is
\* never built.
TailStartFails ==
    /\ tpc = "start"
    /\ \E i \in 1 .. Len(derived_data_types) : derived_data_types[i] \notin Kinds
    /\ tpc' = "rejected"
    /\ tail_err' = "unsupported"
    /\ UNCHANGED <<derived_data_types, heads, tail_pending, tail_work, tail_next,
                   tail_queue, tail_complete, tail_slept, tail_calls, tail_ran>>
    /\ UNCHANGED <<wvars, svars, uvars, bvars, hvars, evars, dvars, ivars>>

\* Lines 465-475: stream::repeat yields the next item and the iteration lists
\* the heads.  What the iteration before left behind is forgotten.
TailList ==
    /\ tpc = "list"
    /\ heads' \in HeadLists
    /\ tail_pending' = <<>>
    /\ tail_work' = <<>>
    /\ tail_calls' = <<>>
    /\ tail_next' = 0
    /\ tail_queue' = {}
    /\ tail_complete' = {}
    /\ tail_slept' = 0
    /\ tpc' = "pending"
    /\ UNCHANGED <<derived_data_types, tail_err, tail_ran>>
    /\ UNCHANGED <<wvars, svars, uvars, bvars, hvars, evars, dvars, ivars>>

\* Lines 467-475: list_publishing_by_prefix returns an error.
TailListFails ==
    /\ tpc = "list"
    /\ tpc' = "error"
    /\ tail_err' = "list"
    /\ UNCHANGED <<derived_data_types, heads, tail_pending, tail_work, tail_next,
                   tail_queue, tail_complete, tail_slept, tail_calls, tail_ran>>
    /\ UNCHANGED <<wvars, svars, uvars, bvars, hvars, evars, dvars, ivars>>

\* Lines 479-515: pending of every kind over the heads (join_all), derive
\* called for every pending head of every kind, the futures flattened; the
\* branch on pending.is_empty().
TailPending ==
    /\ tpc = "pending"
    /\ tail_pending' =
           [i \in 1 .. Len(derived_data_types) |->
               pending(derived_data_types[i], heads, regenerate_overlay,
                       BlobstoreView(durable, cache))]
    /\ tail_work' = TailDeriveFutures(tail_pending')
    /\ tail_calls' = tail_work'
    /\ tpc' = IF tail_work' = <<>> THEN "sleep" ELSE "derive"
    /\ UNCHANGED <<derived_data_types, heads, tail_next, tail_queue, tail_complete,
                   tail_slept, tail_err, tail_ran>>
    /\ UNCHANGED <<wvars, svars, uvars, bvars, hvars, evars, dvars, ivars>>

\* Lines 479-508: pending of one kind returns an error and join_all with it;
\* the kinds before it have made their derive futures, which are dropped.
TailPendingFails ==
    /\ tpc = "pending"
    /\ \E f \in 1 .. Len(derived_data_types) :
        /\ tail_pending' =
               [i \in 1 .. (f - 1) |->
                   pending(derived_data_types[i], heads, regenerate_overlay,
                           BlobstoreView(durable, cache))]
        /\ tail_calls' = TailDeriveFutures(tail_pending')
    /\ tpc' = "error"
    /\ tail_err' = "pending"
    /\ UNCHANGED <<derived_data_types, heads, tail_work, tail_next, tail_queue,
                   tail_complete, tail_slept, tail_ran>>
    /\ UNCHANGED <<wvars, svars, uvars, bvars, hvars, evars, dvars, ivars>>

\* Mutant of TailSleep: the idle iteration returns at once.
TailSleep_Busy ==
    /\ tpc = "sleep"
    /\ tpc' = "list"
    /\ tail_ran' = TRUE
    /\ UNCHANGED <<derived_data_types, heads, tail_pending, tail_work, tail_next,
                   tail_queue, tail_complete, tail_slept, tail_err, tail_calls>>
    /\ UNCHANGED <<wvars, svars, uvars, bvars, hvars, evars, dvars, ivars>>

\* Lines 510-513: no derive future was made; the iteration sleeps and ends.
TailSleep ==
    /\ tpc = "sleep"
    /\ tail_slept' = tail_slept + TAIL_SLEEP_MS
    /\ tpc' = "list"
    /\ tail_ran' = TRUE
    /\ UNCHANGED <<derived_data_types, heads, tail_pending, tail_work, tail_next,
                   tail_queue, tail_complete, tail_err, tail_calls>>
    /\ UNCHANGED <<wvars, svars, uvars, bvars, hvars, evars, dvars, ivars>>

\* Lines 511-512: the timer returns an error.
TailSleepFails ==
    /\ tpc = "sleep"
    /\ tpc' = "error"
    /\ tail_err' = "sleep"
    /\ UNCHANGED <<derived_data_types, heads, tail_pending, tail_work, tail_next,
                   tail_queue, tail_complete, tail_slept, tail_calls, tail_ran>>
    /\ UNCHANGED <<wvars, svars, uvars, bvars, hvars, evars, dvars, ivars>>

\* Mutant of TailDeriveStart: the futures are run without a limit on their
\* number.
TailDeriveStart_Unbounded ==
    /\ tpc = "derive"
    /\ tail_next < Len(tail_work)
    /\ tail_queue' = tail_queue \cup {tail_next + 1}
    /\ tail_next' = tail_next + 1
    /\ UNCHANGED <<derived_data_types, tpc, heads, tail_pending, tail_work,
                   tail_complete, tail_slept, tail_err, tail_calls, tail_ran>>
    /\ UNCHANGED <<wvars, svars, uvars, bvars, hvars, evars, dvars, ivars>>

\* Lines 517-518: buffered(1024) takes the next future from the stream while
\* it holds fewer than its limit, and runs it.
TailDeriveStart ==
    /\ tpc = "derive"
    /\ tail_next < Len(tail_work)
    /\ Cardinality(tail_queue) < TAIL_BUFFER
    /\ tail_queue' = tail_queue \cup {tail_next + 1}
    /\ tail_next' = tail_next + 1
    /\ UNCHANGED <<derived_data_types, tpc, heads, tail_pending, tail_work,
                   tail_complete, tail_slept, tail_err, tail_calls, tail_ran>>
    /\ UNCHANGED <<wvars, svars, uvars, bvars, hvars, evars, dvars, ivars>>

\* Mutant of TailDerive: the derive future is dropped when it is polled, it
\* counts as complete and nothing is derived.
TailDerive_Dropped ==
    /\ tpc = "derive"
    /\ \E i \in tail_queue \ tail_complete :
        LET c == tail_complete \cup {i} IN
        /\ tail_queue' = tail_queue \ Drained(tail_queue, c)
        /\ tail_complete' = c \ Drained(tail_queue, c)
    /\ UNCHANGED <<derived_data_types, tpc, heads, tail_pending, tail_work, tail_next,
                   tail_slept, tail_err, tail_calls, tail_ran>>
    /\ UNCHANGED <<wvars, svars, uvars, bvars, hvars, evars, dvars, ivars>>

\* Lines 517-519: a derive future of the buffer completes with Ok; it leaves
\* the buffer when all futures before it have.
TailDerive ==
    /\ tpc = "derive"
    /\ \E i \in tail_queue \ tail_complete :
        LET r == derive(derived_data_types[tail_work[i][1]], tail_work[i][2],
                        regenerate_overlay, BlobstoreView(durable, cache))
            c == tail_complete \cup {i}
        IN
        /\ PutAll(r.writes)
        /\ regenerate_overlay' = r.overlay
        /\ tail_queue' = tail_queue \ Drained(tail_queue, c)
        /\ tail_complete' = c \ Drained(tail_queue, c)
    /\ UNCHANGED <<derived_data_types, tpc, heads, tail_pending, tail_work,
                   tail_next, tail_slept, tail_err, tail_calls, tail_ran>>
    /\ UNCHANGED <<staged, wvars, uvars, bvars, hvars, evars, dvars, ivars>>

\* Mutant of TailDeriveFails: the error of a derive is logged and dropped.
TailDeriveFails_Ignored ==
    /\ tpc = "derive"
    /\ \E i \in tail_queue \ tail_complete :
        LET c == tail_complete \cup {i} IN
        /\ tail_queue' = tail_queue \ Drained(tail_queue, c)
        /\ tail_complete' = c \ Drained(tail_queue, c)
    /\ tail_err' = "derive"
    /\ UNCHANGED <<derived_data_types, tpc, heads, tail_pending, tail_work,
                   tail_next, tail_slept, tail_calls, tail_ran>>
    /\ UNCHANGED <<wvars, svars, uvars, bvars, hvars, evars, dvars, ivars>>

\* Lines 517-519: a derive future of the buffer completes with an error,
\* which buffered passes on at once; the other futures are dropped.
TailDeriveFails ==
    /\ tpc = "derive"
    /\ \E i \in tail_queue \ tail_complete :
        \E w \in DeriveFailsWrites(derived_data_types[tail_work[i][1]], tail_work[i][2],
                                   regenerate_overlay, BlobstoreView(durable, cache)) :
            PutAll(w)
    /\ tpc' = "error"
    /\ tail_err' = "derive"
    /\ UNCHANGED <<derived_data_types, heads, tail_pending, tail_work, tail_next,
                   tail_queue, tail_complete, tail_slept, tail_calls, tail_ran>>
    /\ UNCHANGED <<staged, regenerate_overlay, wvars, uvars, bvars, hvars, evars, dvars, ivars>>

\* Lines 519-531: the stream of futures is exhausted and all are complete;
\* the time is logged and the iteration ends.
TailDeriveDone ==
    /\ tpc = "derive"
    /\ tail_next = Len(tail_work)
    /\ tail_queue = {}
    /\ tpc' = "list"
    /\ tail_ran' = TRUE
    /\ UNCHANGED <<derived_data_types, heads, tail_pending, tail_work, tail_next,
                   tail_queue, tail_complete, tail_slept, tail_err, tail_calls>>
    /\ UNCHANGED <<wvars, svars, uvars, bvars, hvars, evars, dvars, ivars>>

NextTail ==
    \/ TailStart
    \/ TailStartFails
    \/ TailList
    \/ TailListFails
    \/ TailPending
    \/ TailPendingFails
    \/ TailSleep
    \/ TailSleepFails
    \/ TailDeriveStart
    \/ TailDerive
    \/ TailDeriveFails
    \/ TailDeriveDone

(***************************************************************************)
(* Claims about the tail loop.                                             *)
(***************************************************************************)
\* The iteration that has just ended found no pending head for any kind.
TailIdle == \A i \in 1 .. Len(tail_pending) : tail_pending[i] = <<>>
\* An iteration has just ended and the next one is about to list the heads.
TailIterationEnded == tpc = "list" /\ tail_ran
\* The head derivations in flight.
TailInFlight == tail_queue \ tail_complete

\* C16: in a tail iteration where the pending subset of the heads is empty
\* for every configured kind, the loop makes no derive call and runs none,
\* sleeps the fixed interval of 250 ms, and then starts the next iteration.
C16_IdleIterationSleeps ==
    /\ (tpc \in {"sleep", "derive"} /\ TailIdle) =>
           /\ tpc = "sleep"
           /\ tail_calls = <<>>
           /\ tail_queue = {}
           /\ ENABLED TailSleep
    /\ (TailIterationEnded /\ TailIdle) =>
           /\ tail_calls = <<>>
           /\ tail_next = 0
           /\ tail_slept = TAIL_SLEEP_MS
           /\ ENABLED TailList

\* An iteration with two kinds and two different heads, all derived, has
\* slept and ended.
C16_Witness ==
    /\ TailIterationEnded
    /\ Len(derived_data_types) = 2
    /\ Len(heads) = 2 /\ heads[1] # heads[2]
    /\ TailIdle
    /\ tail_slept = TAIL_SLEEP_MS

\* C17: in a tail iteration where at least one kind has a pending head, the
\* loop calls that kind's own derive for every (kind, head) pair where the
\* head is in that kind's pending result, as often as it is in it, and for no
\* other pair; once all of them have succeeded every such pair has its
\* derived data and the next iteration starts without a sleep.
C17_BusyIterationDerives ==
    ((tpc = "derive" \/ TailIterationEnded) /\ ~TailIdle) =>
        /\ \A i \in 1 .. Len(derived_data_types), c \in UtilsCommits :
               Count(tail_calls, <<i, c>>) = Count(tail_pending[i], c)
        /\ \A n \in 1 .. Len(tail_calls) :
               /\ tail_calls[n][1] \in 1 .. Len(derived_data_types)
               /\ tail_calls[n][2] \in Range(heads)
        /\ TailIterationEnded =>
               /\ \A n \in 1 .. Len(tail_calls) :
                      HasEntry(derived_data_types[tail_calls[n][1]], tail_calls[n][2])
               /\ tail_next = Len(tail_calls)
               /\ tail_slept = 0
               /\ ENABLED TailList

\* An iteration over two heads and two different kinds, where one kind had
\* both heads pending and the other only one of them, has ended.
C17_Witness ==
    /\ TailIterationEnded
    /\ Len(derived_data_types) = 2
    /\ derived_data_types[1] # derived_data_types[2]
    /\ Len(heads) = 2
    /\ Len(tail_pending[1]) = 1
    /\ Len(tail_pending[2]) = 2
    /\ Len(tail_calls) = 3

\* C18: at every moment of the tail loop the number of head derivations in
\* flight is at most the limit of buffered(), whatever the number of pending
\* heads and kinds.
C18_TailInFlightBounded ==
    /\ Cardinality(TailInFlight) <= TAIL_BUFFER
    /\ Cardinality(tail_queue) <= TAIL_BUFFER

\* As many derivations as the limit allows are in flight and more derive
\* futures wait in the stream.
C18_Witness ==
    /\ tpc = "derive"
    /\ Cardinality(TailInFlight) = TAIL_BUFFER
    /\ tail_next < Len(tail_work)

\* C19: the tail loop has no terminal state when no operation fails, and it
\* ends only by an error of listing the heads, of a pending call, of a derive
\* call or of the sleep; after such an error no further iteration is started.
C19_TailEndsOnlyOnError ==
    /\ tpc \in {"list", "pending", "derive", "sleep"} =>
           /\ tail_err = "none"
           /\ ENABLED (\/ TailList \/ TailPending \/ TailSleep
                       \/ TailDeriveStart \/ TailDerive \/ TailDeriveDone)
    /\ tpc = "error" =>
           /\ tail_err \in {"list", "pending", "derive", "sleep"}
           /\ ~ENABLED NextTail

\* A derive failed after an iteration had run to its end, while another
\* derivation was in flight and derive futures were waiting.
C19_Witness ==
    /\ tpc = "error"
    /\ tail_err = "derive"
    /\ tail_ran
    /\ Cardinality(TailInFlight) >= 2
    /\ tail_next < Len(tail_work)

\* The derive calls of this iteration for commit c made by the DerivedUtils
\* of kind K.
KindCalls(K, c) ==
    Cardinality({n \in 1 .. Len(tail_calls) :
                    /\ derived_data_types[tail_calls[n][1]] = K
                    /\ tail_calls[n][2] = c})

\* c is in a pending result of kind K in this iteration.
PendingFor(K, c) ==
    \E i \in 1 .. Len(tail_pending) :
        derived_data_types[i] = K /\ c \in Range(tail_pending[i])

\* C30: within one tail iteration derive is called at most once for a
\* (kind, commit) pair, also when several heads point to the same commit.
C30_DeriveOncePerPair ==
    \A K \in Kinds, c \in UtilsCommits : KindCalls(K, c) <= 1

\* C30 as the code has it: within one tail iteration derive is called for a
\* (kind, commit) pair once per head that points to the commit and per
\* occurrence of the kind in the argument, if the commit is pending for the
\* kind, and not at all otherwise; at most once, then, when the heads are
\* different commits and the kinds are different.
C30_DerivePerListedHead ==
    /\ \A K \in Kinds, c \in UtilsCommits :
           KindCalls(K, c) <= Count(derived_data_types, K) * Count(heads, c)
    /\ (tpc = "derive" \/ TailIterationEnded) =>
           \A K \in Kinds, c \in UtilsCommits :
               KindCalls(K, c) =
                   IF PendingFor(K, c)
                   THEN Count(derived_data_types, K) * Count(heads, c)
                   ELSE 0
    /\ (/\ \A i, j \in 1 .. Len(heads) : i # j => heads[i] # heads[j]
        /\ \A i, j \in 1 .. Len(derived_data_types) :
               i # j => derived_data_types[i] # derived_data_types[j])
           => \A K \in Kinds, c \in UtilsCommits : KindCalls(K, c) <= 1

\* Two heads point to the same commit, which is pending for a kind: derive
\* of that kind is called twice for it in this iteration.
C30_Witness ==
    /\ tpc = "derive"
    /\ Len(heads) = 2
    /\ heads[1] = heads[2]
    /\ Len(derived_data_types) = 1
    /\ KindCalls(derived_data_types[1], heads[1]) = 2

\* No operation of the tail loop has failed.
TailNoFailure == tail_err = "none"

\* K is one of the kinds the loop was started with.
Configured(K) == \E i \in 1 .. Len(derived_data_types) : derived_data_types[i] = K

\* c is not pending for K: the mapping of K reports it.
NotPending(K, c) == pending(K, <<c>>, regenerate_overlay, View) = <<>>

\* A derive call of this iteration for commit c by the DerivedUtils of kind K
\* has completed.
DeriveCompleted(K, c) ==
    \E n \in 1 .. tail_next :
        /\ n \notin TailInFlight
        /\ derived_data_types[tail_work[n][1]] = K
        /\ tail_work[n][2] = c

\* C28: if no operation fails and the loop keeps running, a commit c that
\* is a head in every iteration from some point on and is pending for a
\* configured kind K is derived in the end: whenever an iteration finds c
\* pending for K, a derive call for (K, c) of that iteration completes and c
\* is not pending for K any more; and from some point on c is never pending
\* for K again.
C28_TailLiveness ==
    \A K \in Kinds, c \in UtilsCommits :
        ([]TailNoFailure /\ <>[](c \in Range(heads))) =>
            /\ (tpc = "derive" /\ PendingFor(K, c))
                   ~> (DeriveCompleted(K, c) /\ NotPending(K, c))
            /\ Configured(K) => <>[]NotPending(K, c)

\* An iteration that found a head pending has derived it and ended.
C28_Witness ==
    /\ TailIterationEnded
    /\ tail_err = "none"
    /\ \E K \in Kinds, c \in Range(heads) :
           /\ PendingFor(K, c)
           /\ DeriveCompleted(K, c)
           /\ NotPending(K, c)

(***************************************************************************)
(* fetch_all_public_changesets:                                            *)
(* src/cmds/backfill_derived_data.rs 294-333                               *)
(* A row of the changesets table is named by its id; the entry of a row is *)
(* its commit.                                                             *)
(***************************************************************************)
\* The changesets tables: up to MaxRows rows with ids of the word.
Tables == {t \in SUBSET Word : Cardinality(t) <= MaxRows}

\* get_changesets_ids_bounds: the least and the greatest id of the table.
MinId(t) == CHOOSE x \in t : \A y \in t : x <= y
MaxId(t) == CHOOSE x \in t : \A y \in t : y <= x

\* get_list_bs_cs_id_in_range(repo_id, lower_bound, upper_bound) is not part
\* of the sources at hand: the rows from lower_bound up to upper_bound, the
\* upper bound being part of the range or not.
RowsInRange(t, lo, hi, inclusive) ==
    {r \in t : lo <= r /\ (r < hi \/ (inclusive /\ r = hi))}

\* The rows of a set in the order of their ids.
RECURSIVE Ascending(_)
Ascending(S) == IF S = {} THEN <<>>
                ELSE <<MinId(S)>> \o Ascending(S \ {MinId(S)})

\* Lines 310-330: the ids of the window, their entries (get_many), and of
\* these the ones get_public_raw reports public (retain).
PublicInWindow(t, pub, lo, hi, inclusive) ==
    Ascending({r \in RowsInRange(t, lo, hi, inclusive) : r \in pub})

\* Lines 301-304: the table has no row.
EnumBoundsFails ==
    /\ epc = "bounds"
    /\ table = {}
    /\ epc' = "error"
    /\ UNCHANGED <<table, public, range_inclusive, enumerated>>
    /\ UNCHANGED <<wvars, svars, uvars, bvars, hvars, tvars, dvars, ivars>>

\* Lines 301-306: the windows from the least to the greatest id, 65536 wide.
EnumBounds ==
    /\ epc = "bounds"
    /\ table # {}
    /\ start' = MinId(table)
    /\ stop' = MaxId(table)
    /\ step' = ENUM_STEP
    /\ index' = 0
    /\ yielded' = <<>>
    /\ wpc' = "iter"
    /\ epc' = "windows"
    /\ UNCHANGED <<overflow_checks, table, public, range_inclusive, enumerated>>
    /\ UNCHANGED <<svars, uvars, bvars, hvars, tvars, dvars, ivars>>

\* Lines 306-308: the closure of windows overflows in a build with overflow
\* checks.
EnumPanic ==
    /\ epc = "windows"
    /\ overflow_checks
    /\ WindowOverflows(start, index, step)
    /\ wpc' = "panic"
    /\ epc' = "panic"
    /\ UNCHANGED <<start, stop, step, overflow_checks, index, yielded>>
    /\ UNCHANGED <<table, public, range_inclusive, enumerated>>
    /\ UNCHANGED <<svars, uvars, bvars, hvars, tvars, dvars, ivars>>

\* Lines 309-332: the iterator yields the next window; its public entries
\* are added to the stream.
EnumWindow ==
    /\ epc = "windows"
    /\ Len(yielded) < MaxYield
    /\ ~(overflow_checks /\ WindowOverflows(start, index, step))
    /\ WindowTaken(WindowLow(start, index, step), stop)
    /\ LET w == WindowClamp(WindowLow(start, index, step),
                            WindowHigh(start, index, step), stop) IN
        /\ yielded' = Append(yielded, w)
        /\ enumerated' = enumerated \o
               PublicInWindow(table, public, w[1], w[2], range_inclusive)
    /\ index' = (index + 1) % Modulus
    /\ UNCHANGED <<start, stop, step, overflow_checks, wpc>>
    /\ UNCHANGED <<table, public, range_inclusive, epc>>
    /\ UNCHANGED <<svars, uvars, bvars, hvars, tvars, dvars, ivars>>

\* Lines 309-331: a query of the window returns an error.
EnumWindowFails ==
    /\ epc = "windows"
    /\ Len(yielded) < MaxYield
    /\ ~(overflow_checks /\ WindowOverflows(start, index, step))
    /\ WindowTaken(WindowLow(start, index, step), stop)
    /\ epc' = "error"
    /\ UNCHANGED <<table, public, range_inclusive, enumerated>>
    /\ UNCHANGED <<wvars, svars, uvars, bvars, hvars, tvars, dvars, ivars>>

\* Lines 306-308, 332: the iterator of the windows ends and the stream with it.
EnumEnd ==
    /\ epc = "windows"
    /\ ~(overflow_checks /\ WindowOverflows(start, index, step))
    /\ ~WindowTaken(WindowLow(start, index, step), stop)
    /\ wpc' = "done"
    /\ epc' = "done"
    /\ UNCHANGED <<start, stop, step, overflow_checks, index, yielded>>
    /\ UNCHANGED <<table, public, range_inclusive, enumerated>>
    /\ UNCHANGED <<svars, uvars, bvars, hvars, tvars, dvars, ivars>>

NextEnum ==
    \/ EnumBoundsFails
    \/ EnumBounds
    \/ EnumPanic
    \/ EnumWindow
    \/ EnumWindowFails
    \/ EnumEnd

(***************************************************************************)
(* Claims about the enumeration of the public commits.                     *)
(***************************************************************************)
\* C20: for every non-empty changesets table, the sequence the enumeration
\* of the public commits produces contains every commit the phases store
\* reports public exactly once, and no commit that is not public.  (The
\* enumeration of a non-empty table ends, and ends without a panic.)
C20_EnumeratesPublicOnce ==
    /\ epc # "panic"
    /\ epc = "done" =>
           \A r \in Word : Count(enumerated, r) = IF r \in public THEN 1 ELSE 0

\* What the enumeration does keep: it produces rows of the table that are
\* public, and nothing else.
EnumeratedArePublic == Range(enumerated) \subseteq public

\* No arithmetic of windows overflows for this table: the largest value it
\* computes is below stop + 2 * step.
EnumInRange == table # {} => MaxId(table) + 2 * ENUM_STEP <= Modulus

\* Away from the overflow of windows, with a range query that includes its
\* upper bound, every public commit of a table of two or more rows is
\* produced at least once.
EnumInclusiveCoversPublic ==
    (epc = "done" /\ EnumInRange /\ range_inclusive /\ Cardinality(table) >= 2)
        => public \subseteq Range(enumerated)

(***************************************************************************)
(* MultiDriver: src/eden/scm/lib/edenapi/src/curl/driver.rs                *)
(* The driver owns a curl Multi session.  A transfer makes progress only   *)
(* inside Multi::perform, which returns the number of transfers that still *)
(* run; Multi::messages hands every completion to the closure once.        *)
(* Token t of the model is token t - 1 of the source (handles.len() before *)
(* the push).  An add that fails (add2 or set_token) drops the handle and  *)
(* leaves the driver as it was.                                            *)
(***************************************************************************)
Tokens == 1 .. Len(handles)

\* The tokens of S in ascending order.
InTokenOrder(S) ==
    [i \in 1 .. Cardinality(S) |->
        CHOOSE t \in S : Cardinality({u \in S : u < t}) = i - 1]

\* What the closure of perform does with the message of token t:
\*   "cb_ok"       the callback is called and returns Ok(())
\*   "cb_err"      the callback is called and returns an error
\*   "remove_err"  take_handle fails (Multi::remove2), the callback is not called
MessageOutcomes(t) ==
    IF transfers[t] = "ok" THEN {"cb_ok", "cb_err", "remove_err"}
                           ELSE {"cb_ok", "cb_err"}

\* The argument of the callback for the message of token t.
CallbackArg(t) == IF transfers[t] = "ok" THEN <<"Ok", t>> ELSE <<"Err", t>>

\* The calls of the callback one Multi::messages makes, in order.
CallbacksOf(out) ==
    LET order == InTokenOrder(messages)
        called(t) == out[t] # "remove_err"
    IN  [i \in 1 .. Len(SelectSeq(order, called)) |->
            CallbackArg(SelectSeq(order, called)[i])]

\* The errors pushed while the messages are read, in order.
ErrorsOf(out) ==
    LET order == InTokenOrder(messages)
        failed(t) == out[t] # "cb_ok"
    IN  [i \in 1 .. Len(SelectSeq(order, failed)) |->
            IF out[SelectSeq(order, failed)[i]] = "cb_err" THEN "callback"
                                                            ELSE "remove"]

ShouldAbort_Always(errs) == errs # <<>>

\* if self.fail_early && !errors.is_empty()
ShouldAbort(errs) == fail_early /\ errs # <<>>

\* fail_early(b)
DriverFailEarly ==
    /\ dpc = "setup"
    /\ \E b \in BOOLEAN : b # fail_early /\ fail_early' = b
    /\ UNCHANGED <<handles, num_transfers, progress, transfers, messages,
                   in_progress, errors, callbacks, reports, dpc, dresult>>
    /\ UNCHANGED <<wvars, svars, uvars, bvars, hvars, tvars, evars, ivars>>

\* set_progress_reporter(progress)
DriverSetProgress ==
    /\ dpc = "setup"
    /\ ~progress
    /\ progress' = TRUE
    /\ UNCHANGED <<fail_early, handles, num_transfers, transfers, messages,
                   in_progress, errors, callbacks, reports, dpc, dresult>>
    /\ UNCHANGED <<wvars, svars, uvars, bvars, hvars, tvars, evars, ivars>>

\* add(easy)
DriverAdd ==
    /\ dpc = "setup"
    /\ Len(handles) < MaxTransfers
    /\ handles' = Append(handles, TRUE)
    /\ transfers' = Append(transfers, "running")
    /\ num_transfers' = num_transfers + 1
    /\ UNCHANGED <<fail_early, progress, messages, in_progress, errors,
                   callbacks, reports, dpc, dresult>>
    /\ UNCHANGED <<wvars, svars, uvars, bvars, hvars, tvars, evars, ivars>>

\* perform, the head of an iteration: self.multi.perform()?.  Any of the
\* running transfers may complete, successfully or not.
DriverPerform ==
    /\ dpc \in {"setup", "loop"}
    /\ \E done \in SUBSET {t \in Tokens : transfers[t] = "running"} :
       \E result \in [done -> {"ok", "failed"}] :
          /\ transfers' = [t \in Tokens |->
                              IF t \in done THEN result[t] ELSE transfers[t]]
          /\ messages' = messages \cup done
          /\ in_progress' =
                 Cardinality({t \in Tokens : transfers[t] = "running"} \ done)
    /\ errors' = <<>>
    /\ dpc' = "messages"
    /\ UNCHANGED <<fail_early, handles, num_transfers, progress, callbacks,
                   reports, dresult>>
    /\ UNCHANGED <<wvars, svars, uvars, bvars, hvars, tvars, evars, ivars>>

DriverPerformFails ==
    /\ dpc \in {"setup", "loop"}
    /\ dpc' = "returned"
    /\ dresult' = "multi"
    /\ UNCHANGED <<fail_early, handles, num_transfers, progress, transfers,
                   messages, in_progress, errors, callbacks, reports>>
    /\ UNCHANGED <<wvars, svars, uvars, bvars, hvars, tvars, evars, ivars>>

\* perform, the rest of an iteration up to the wait: the messages are read,
\* then the driver returns early, returns because nothing runs, or goes on.
DriverMessages ==
    /\ dpc = "messages"
    /\ \E out \in [messages -> {"cb_ok", "cb_err", "remove_err"}] :
          /\ \A t \in messages : out[t] \in MessageOutcomes(t)
          /\ callbacks' = callbacks \o CallbacksOf(out)
          /\ errors' = ErrorsOf(out)
          /\ handles' = [t \in Tokens |->
                            IF t \in messages /\ transfers[t] = "ok"
                            THEN FALSE ELSE handles[t]]
          /\ transfers' = [t \in Tokens |->
                              IF /\ t \in messages
                                 /\ transfers[t] = "ok"
                                 /\ out[t] # "remove_err"
                              THEN "removed" ELSE transfers[t]]
    /\ messages' = {}
    /\ IF ShouldAbort(errors')
       THEN /\ dpc' = "returned"
            /\ dresult' = errors'[Len(errors')]
            /\ reports' = reports
       ELSE /\ reports' = IF messages # {} /\ progress THEN reports + 1
                                                        ELSE reports
            /\ IF in_progress = 0
               THEN dpc' = "returned" /\ dresult' = "ok"
               ELSE dpc' = "wait" /\ dresult' = dresult
    /\ UNCHANGED <<fail_early, num_transfers, progress, in_progress>>
    /\ UNCHANGED <<wvars, svars, uvars, bvars, hvars, tvars, evars, ivars>>

\* perform, the end of an iteration: get_timeout()? and wait(..)?
DriverWait ==
    /\ dpc = "wait"
    /\ dpc' = "loop"
    /\ UNCHANGED <<fail_early, handles, num_transfers, progress, transfers,
                   messages, in_progress, errors, callbacks, reports, dresult>>
    /\ UNCHANGED <<wvars, svars, uvars, bvars, hvars, tvars, evars, ivars>>

DriverWaitFails ==
    /\ dpc = "wait"
    /\ dpc' = "returned"
    /\ dresult' = "multi"
    /\ UNCHANGED <<fail_early, handles, num_transfers, progress, transfers,
                   messages, in_progress, errors, callbacks, reports>>
    /\ UNCHANGED <<wvars, svars, uvars, bvars, hvars, tvars, evars, ivars>>

NextDriver ==
    \/ DriverFailEarly
    \/ DriverSetProgress
    \/ DriverAdd
    \/ DriverPerform
    \/ DriverPerformFails
    \/ DriverMessages
    \/ DriverWait
    \/ DriverWaitFails

(***************************************************************************)
(* Claims about MultiDriver.                                               *)
(***************************************************************************)
\* The completions Multi::messages has handed to the closure.
Reported == {t \in Tokens : transfers[t] # "running" /\ t \notin messages}

\* The transfers that completed without an error.
Succeeded == {t \in Tokens : transfers[t] \in {"ok", "removed"}}

CallbackCount(arg) ==
    Cardinality({i \in DOMAIN callbacks : callbacks[i] = arg})

\* C21: with fail_early set, perform returns an error as soon as a
\* transfer fails: once the failure of a transfer has been read from the
\* session, perform has returned, and returned an error.
C21_FailEarlyOnTransferFailure ==
    (fail_early /\ \E t \in Reported : transfers[t] = "failed")
        => (dpc = "returned" /\ dresult # "ok")

\* What the code does: with fail_early set, perform returns an error as
\* soon as the callback or take_handle returned one.
FailEarlyOnCallbackError ==
    (fail_early /\ dpc \in {"wait", "loop", "returned"} /\ errors # <<>>)
        => (dpc = "returned" /\ dresult # "ok")

\* C22: with fail_early not set, perform returns only when the session
\* reports that no transfer is in progress, every added transfer having
\* completed, or when an operation of the session failed.
C22_ReturnsWhenAllComplete ==
    (~fail_early /\ dpc = "returned")
        => \/ dresult = "multi"
           \/ /\ dresult = "ok"
              /\ in_progress = 0
              /\ \A t \in Tokens : transfers[t] # "running"
              /\ messages = {}

\* perform has returned Ok without fail_early although errors were recorded
\* on the way: both transfers completed, one of them with an error.
C22_Witness ==
    /\ ~fail_early
    /\ dpc = "returned"
    /\ dresult = "ok"
    /\ Len(transfers) >= 2
    /\ \E t \in Tokens : transfers[t] = "failed"
    /\ \E t \in Tokens : transfers[t] = "removed"
    /\ Len(callbacks) >= 2

\* C23: the callback is called exactly once for each completion the session
\* reported, with Ok(handle) for a transfer that succeeded and with Err for
\* one that failed, and never for a transfer that has not completed.
C23_CallbackPerCompletion ==
    \A t \in Tokens :
        /\ CallbackCount(<<"Ok", t>>) =
               (IF t \in Reported /\ t \in Succeeded THEN 1 ELSE 0)
        /\ CallbackCount(<<"Err", t>>) =
               (IF t \in Reported /\ t \notin Succeeded THEN 1 ELSE 0)

\* What the code does: at most one call per reported completion, of the
\* matching kind, and exactly one unless take_handle failed.
CallbackAtMostOncePerCompletion ==
    \A t \in Tokens :
        /\ CallbackCount(<<"Ok", t>>) =
               (IF t \in Reported /\ transfers[t] = "removed" THEN 1 ELSE 0)
        /\ CallbackCount(<<"Err", t>>) =
               (IF t \in Reported /\ transfers[t] = "failed" THEN 1 ELSE 0)

(***************************************************************************)
(* IndexedLogHgIdDataStore:                                                *)
(* src/eden/scm/lib/revisionstore/src/indexedlogdatastore.rs               *)
(* A byte string is a sequence of cells.  An HgId takes one cell, the      *)
(* two-byte path length one cell modulo PathLenModulus, every other length *)
(* one cell.  The RotateLog is the sequence of the entries appended to it, *)
(* oldest first; log_mem holds those the open log has not flushed yet.     *)
(* Rotation (four logs of 2.5 GB) and other writers of the same directory  *)
(* are left out, as are I/O errors of the log.                             *)
(***************************************************************************)
HgIds == {1, 2}

\* A path of n bytes.
PathOfLen(n) == [i \in 1 .. n |-> 1]

\* A path the length field can hold and one it cannot.
Paths == {PathOfLen(1), PathOfLen(PathLenModulus)}

Keys == [path : Paths, hgid : HgIds]

Datas == {<<>>, <<7, 8>>}

\* Metadata as Metadata::write serialises it, without the length.
Metadatas == {<<>>, <<5>>}

\* lz4_pyframe: the frame starts with the length of the raw data.
compress(raw) == <<Len(raw)>> \o raw

decompress(compressed) ==
    IF compressed # <<>> /\ compressed[1] = Len(compressed) - 1
    THEN [ok |-> TRUE, raw |-> Tail(compressed)]
    ELSE [ok |-> FALSE, raw |-> <<>>]

\* Metadata::write: the length of the list, then the list.
MetadataWrite(metadata) == <<Len(metadata)>> \o metadata

ParseError ==
    [ok |-> FALSE, key |-> [path |-> <<>>, hgid |-> 0],
     metadata |-> <<>>, compressed |-> <<>>]

\* Entry::write_to_log, the buffer it appends (content is Some, the entry
\* comes from Entry::new).
write_to_log(key, raw, metadata) ==
    <<key.hgid>>
        \o <<Len(key.path) % PathLenModulus>>
        \o key.path
        \o MetadataWrite(metadata)
        \o <<Len(compress(raw))>>
        \o compress(raw)

\* Entry::from_slice
from_slice(data) ==
    IF Len(data) < 2 THEN ParseError
    ELSE
    LET name_len == data[2]
        mpos == 3 + name_len
    IN
    IF mpos > Len(data) THEN ParseError
    ELSE
    LET mlen == data[mpos]
        cpos == mpos + mlen + 1
    IN
    IF cpos > Len(data) THEN ParseError
    ELSE
    LET compressed_len == data[cpos]
    IN
    IF cpos + compressed_len > Len(data) THEN ParseError
    ELSE [ok |-> TRUE,
          key |-> [path |-> SubSeq(data, 3, 2 + name_len), hgid |-> data[1]],
          metadata |-> SubSeq(data, mpos + 1, mpos + mlen),
          compressed |-> SubSeq(data, cpos + 1, cpos + compressed_len)]

\* The entries of the open log.
Log == log_disk \o log_mem

lookup_AnyEntry(log, hgid) ==
    [i \in 1 .. Len(log) |-> log[Len(log) + 1 - i]]

\* RotateLog::lookup(0, hgid): the entries whose index key (the cells of the
\* HgId, see default_open_options) is hgid, newest first.
lookup(log, hgid) ==
    LET newest_first == [i \in 1 .. Len(log) |-> log[Len(log) + 1 - i]]
        matches(buf) == buf[1] = hgid
    IN  SelectSeq(newest_first, matches)

\* Entry::from_log: "none", or the entry parsed from the first hit.
from_log(key, log) ==
    IF lookup(log, key.hgid) = <<>>
    THEN [found |-> FALSE, entry |-> ParseError]
    ELSE [found |-> TRUE, entry |-> from_slice(lookup(log, key.hgid)[1])]

\* Entry::content of an entry read from the log.
content(entry) == decompress(entry.compressed)

NoData == [ok |-> TRUE, some |-> FALSE, data |-> <<>>]
GetError == [ok |-> FALSE, some |-> FALSE, data |-> <<>>]

\* HgIdDataStore::get
get(key) ==
    LET e == from_log(key, Log)
    IN  IF ~e.found THEN NoData
        ELSE IF ~e.entry.ok THEN GetError
        ELSE IF ~content(e.entry).ok THEN GetError
        ELSE [ok |-> TRUE, some |-> TRUE, data |-> content(e.entry).raw]

\* LocalStore::get_missing; a StoreKey is [kind : {"hgid", "content"}, key].
get_missing(keys) ==
    LET missing(k) ==
            \/ k.kind = "content"
            \/ ~from_log(k.key, Log).found
            \/ ~from_log(k.key, Log).entry.ok
    IN  SelectSeq(keys, missing)

\* add(delta, metadata) with delta.base = None
ILogAdd ==
    /\ ipc = "open"
    /\ iadds < MaxAdds
    /\ \E key \in Keys, data \in Datas, metadata \in Metadatas :
          /\ log_mem' = Append(log_mem, write_to_log(key, data, metadata))
          /\ iwatched' = [path |-> key.path, hgid |-> key.hgid, data |-> data]
          /\ iadded' = iadded \cup {key}
    /\ iadds' = iadds + 1
    /\ iphase' = "added"
    /\ iresult' = "ok"
    /\ UNCHANGED <<log_disk, ipc>>
    /\ UNCHANGED <<wvars, svars, uvars, bvars, hvars, tvars, evars, dvars>>

\* add(delta, metadata) with delta.base = Some(..): "Deltas aren't supported."
ILogAddChain ==
    /\ ipc = "open"
    /\ iresult # "deltas_unsupported"
    /\ iresult' = "deltas_unsupported"
    /\ UNCHANGED <<log_disk, log_mem, ipc, iwatched, iphase, iadded, iadds>>
    /\ UNCHANGED <<wvars, svars, uvars, bvars, hvars, tvars, evars, dvars>>

\* flush()
ILogFlush ==
    /\ ipc = "open"
    /\ log_mem # <<>> \/ iresult # "ok"
    /\ log_disk' = log_disk \o log_mem
    /\ log_mem' = <<>>
    /\ iphase' = IF iphase = "added" THEN "flushed" ELSE iphase
    /\ iresult' = "ok"
    /\ UNCHANGED <<ipc, iwatched, iadded, iadds>>
    /\ UNCHANGED <<wvars, svars, uvars, bvars, hvars, tvars, evars, dvars>>

\* The store is dropped and IndexedLogHgIdDataStore::new(path) opens the
\* directory again: what was not flushed is gone.
ILogReopen ==
    /\ ipc = "open"
    /\ log_mem # <<>> \/ iresult # "reopened"
    /\ log_mem' = <<>>
    /\ iphase' = IF iphase = "added" THEN "none" ELSE iphase
    /\ iresult' = "reopened"
    /\ UNCHANGED <<log_disk, ipc, iwatched, iadded, iadds>>
    /\ UNCHANGED <<wvars, svars, uvars, bvars, hvars, tvars, evars, dvars>>

NextILog ==
    \/ ILogAdd
    \/ ILogAddChain
    \/ ILogFlush
    \/ ILogReopen

(***************************************************************************)
(* Claims about IndexedLogHgIdDataStore.                                   *)
(***************************************************************************)
WatchedKey == [path |-> iwatched.path, hgid |-> iwatched.hgid]

\* C24: after add(delta, metadata) without a base and flush, get(delta.key)
\* returns delta.data, on this store and on one reopened from the path.
C24_AddFlushGet ==
    iphase = "flushed"
        => get(WatchedKey) = [ok |-> TRUE, some |-> TRUE, data |-> iwatched.data]

\* What the code does: the same, for a path whose length fits the length
\* field of the entry.
AddFlushGetShortPath ==
    (iphase = "flushed" /\ Len(iwatched.path) < PathLenModulus)
        => get(WatchedKey) = [ok |-> TRUE, some |-> TRUE, data |-> iwatched.data]

\* C25: get returns None for every key (path and hgid) that was never
\* added, and get_missing reports it missing.
C25_NeverAddedKeyMissing ==
    \A key \in Keys \ iadded :
        /\ get(key) = NoData
        /\ get_missing(<<[kind |-> "hgid", key |-> key]>>)
               = <<[kind |-> "hgid", key |-> key]>>

\* C25 as the code has it: get returns None for every key whose hgid was
\* never added under any path, and get_missing reports it missing.
C25_NeverAddedHgIdMissing ==
    \A key \in Keys :
        key.hgid \notin {k.hgid : k \in iadded}
            => /\ get(key) = NoData
               /\ get_missing(<<[kind |-> "hgid", key |-> key]>>)
                      = <<[kind |-> "hgid", key |-> key]>>

\* The log holds a flushed entry and one that is not flushed yet, and there
\* is a hgid that was never added.
C25_Witness ==
    /\ log_disk # <<>>
    /\ log_mem # <<>>
    /\ iresult = "ok"
    /\ \E key \in Keys : key.hgid \notin {k.hgid : k \in iadded}

NoDelta == [path |-> <<>>, hgid |-> 0, data |-> <<>>]

\* One run of the windows iterator; nothing else happens.
InitSpecWindows ==
    /\ start \in Word
    /\ stop \in Word
    /\ start <= stop
    /\ step \in Word \ {0}
    /\ overflow_checks \in BOOLEAN
    /\ index = 0
    /\ yielded = <<>>
    /\ wpc = "iter"
    /\ durable = {} /\ cache = {} /\ staged = FALSE
    /\ regenerate_overlay = [k \in Kinds |-> {}]
    /\ last = NoCall
    /\ watched = <<"unodes", 0>>
    /\ phase = "fresh"
    /\ snapshot = [decodes |-> FALSE, entries |-> <<>>] /\ skip = 0 /\ regenerate_flag = FALSE
    /\ derived_data_type = "unodes" /\ bpc = "idle" /\ changesets = <<>>
    /\ position = 0 /\ chunk_pending = <<>> /\ di = 1 /\ in_flight = {}
    /\ generated_count = 0 /\ err = "none"
    /\ derived0 = {} /\ regenerated = <<>> /\ chunk_log = <<>>
    /\ derive_log = <<>> /\ persist_calls = 0
    /\ chunk_durable = {} /\ last_persist = NoPersist
    /\ derived_data_types = <<>> /\ tpc = "idle" /\ heads = <<>>
    /\ tail_pending = <<>> /\ tail_work = <<>> /\ tail_next = 0
    /\ tail_queue = {} /\ tail_complete = {} /\ tail_slept = 0
    /\ tail_err = "none" /\ tail_calls = <<>> /\ tail_ran = FALSE
    /\ table = {} /\ public = {} /\ range_inclusive = FALSE
    /\ epc = "idle" /\ enumerated = <<>>
    /\ fail_early = FALSE /\ handles = <<>> /\ num_transfers = 0
    /\ progress = FALSE /\ transfers = <<>> /\ messages = {}
    /\ in_progress = 0 /\ errors = <<>> /\ callbacks = <<>>
    /\ reports = 0 /\ dpc = "idle" /\ dresult = "none"
    /\ log_disk = <<>> /\ log_mem = <<>> /\ ipc = "idle"
    /\ iwatched = NoDelta /\ iphase = "none"
    /\ iadded = {} /\ iadds = 0 /\ iresult = "ok"

SpecWindows == InitSpecWindows /\ [][NextWindows]_vars

\* The DerivedUtils of both kinds as derived_data_utils builds them, over a
\* blobstore that holds the derived data of earlier runs.
InitSpecUtils ==
    /\ \E S \in DerivedSets(UtilsCommits), T \in DerivedSets(UtilsCommits) :
           durable = ChangesetKeys \cup DerivedKeys("unodes", S)
                                   \cup DerivedKeys("fastlog", T)
    /\ cache = {}
    /\ staged = FALSE
    /\ regenerate_overlay = [k \in Kinds |-> {}]
    /\ last = NoCall
    /\ watched \in Kinds \X UtilsCommits
    /\ phase = "fresh"
    /\ start = 0 /\ stop = 0 /\ step = 1 /\ overflow_checks = FALSE
    /\ index = 0 /\ yielded = <<>> /\ wpc = "idle"
    /\ snapshot = [decodes |-> FALSE, entries |-> <<>>] /\ skip = 0 /\ regenerate_flag = FALSE
    /\ derived_data_type = "unodes" /\ bpc = "idle" /\ changesets = <<>>
    /\ position = 0 /\ chunk_pending = <<>> /\ di = 1 /\ in_flight = {}
    /\ generated_count = 0 /\ err = "none"
    /\ derived0 = {} /\ regenerated = <<>> /\ chunk_log = <<>>
    /\ derive_log = <<>> /\ persist_calls = 0
    /\ chunk_durable = {} /\ last_persist = NoPersist
    /\ derived_data_types = <<>> /\ tpc = "idle" /\ heads = <<>>
    /\ tail_pending = <<>> /\ tail_work = <<>> /\ tail_next = 0
    /\ tail_queue = {} /\ tail_complete = {} /\ tail_slept = 0
    /\ tail_err = "none" /\ tail_calls = <<>> /\ tail_ran = FALSE
    /\ table = {} /\ public = {} /\ range_inclusive = FALSE
    /\ epc = "idle" /\ enumerated = <<>>
    /\ fail_early = FALSE /\ handles = <<>> /\ num_transfers = 0
    /\ progress = FALSE /\ transfers = <<>> /\ messages = {}
    /\ in_progress = 0 /\ errors = <<>> /\ callbacks = <<>>
    /\ reports = 0 /\ dpc = "idle" /\ dresult = "none"
    /\ log_disk = <<>> /\ log_mem = <<>> /\ ipc = "idle"
    /\ iwatched = NoDelta /\ iphase = "none"
    /\ iadded = {} /\ iadds = 0 /\ iresult = "ok"

SpecUtils == InitSpecUtils /\ [][NextUtils]_vars

\* subcommand_tail over a repository that holds the derived data of earlier
\* runs; the repo's blobstore is not overridden.
InitSpecTail ==
    /\ derived_data_types \in TailTypeLists
    /\ tpc = "start" /\ heads = <<>>
    /\ tail_pending = <<>> /\ tail_work = <<>> /\ tail_next = 0
    /\ tail_queue = {} /\ tail_complete = {} /\ tail_slept = 0
    /\ tail_err = "none" /\ tail_calls = <<>> /\ tail_ran = FALSE
    /\ \E S \in DerivedSets(UtilsCommits), T \in DerivedSets(UtilsCommits) :
           durable = ChangesetKeys \cup DerivedKeys("unodes", S)
                                   \cup DerivedKeys("fastlog", T)
    /\ cache = {}
    /\ staged = FALSE
    /\ regenerate_overlay = [k \in Kinds |-> {}]
    /\ last = NoCall
    /\ watched = <<"unodes", 0>>
    /\ phase = "fresh"
    /\ start = 0 /\ stop = 0 /\ step = 1 /\ overflow_checks = FALSE
    /\ index = 0 /\ yielded = <<>> /\ wpc = "idle"
    /\ snapshot = [decodes |-> FALSE, entries |-> <<>>] /\ skip = 0 /\ regenerate_flag = FALSE
    /\ derived_data_type = "unodes" /\ bpc = "idle" /\ changesets = <<>>
    /\ position = 0 /\ chunk_pending = <<>> /\ di = 1 /\ in_flight = {}
    /\ generated_count = 0 /\ err = "none"
    /\ derived0 = {} /\ regenerated = <<>> /\ chunk_log = <<>>
    /\ derive_log = <<>> /\ persist_calls = 0
    /\ chunk_durable = {} /\ last_persist = NoPersist
    /\ table = {} /\ public = {} /\ range_inclusive = FALSE
    /\ epc = "idle" /\ enumerated = <<>>
    /\ fail_early = FALSE /\ handles = <<>> /\ num_transfers = 0
    /\ progress = FALSE /\ transfers = <<>> /\ messages = {}
    /\ in_progress = 0 /\ errors = <<>> /\ callbacks = <<>>
    /\ reports = 0 /\ dpc = "idle" /\ dresult = "none"
    /\ log_disk = <<>> /\ log_mem = <<>> /\ ipc = "idle"
    /\ iwatched = NoDelta /\ iphase = "none"
    /\ iadded = {} /\ iadds = 0 /\ iresult = "ok"

SpecTail == InitSpecTail /\ [][NextTail]_vars

\* The steps the loop takes when no operation fails.
TailProgress ==
    \/ TailStart
    \/ TailList
    \/ TailPending
    \/ TailSleep
    \/ TailDeriveStart
    \/ TailDerive
    \/ TailDeriveDone

\* subcommand_tail started on a repository without derived data; the stores
\* with derived data are reached as the loop derives.
InitSpecTailFair ==
    /\ derived_data_types \in TailTypeLists
    /\ tpc = "start" /\ heads = <<>>
    /\ tail_pending = <<>> /\ tail_work = <<>> /\ tail_next = 0
    /\ tail_queue = {} /\ tail_complete = {} /\ tail_slept = 0
    /\ tail_err = "none" /\ tail_calls = <<>> /\ tail_ran = FALSE
    /\ durable = ChangesetKeys
    /\ cache = {}
    /\ staged = FALSE
    /\ regenerate_overlay = [k \in Kinds |-> {}]
    /\ last = NoCall
    /\ watched = <<"unodes", 0>>
    /\ phase = "fresh"
    /\ start = 0 /\ stop = 0 /\ step = 1 /\ overflow_checks = FALSE
    /\ index = 0 /\ yielded = <<>> /\ wpc = "idle"
    /\ snapshot = [decodes |-> FALSE, entries |-> <<>>] /\ skip = 0 /\ regenerate_flag = FALSE
    /\ derived_data_type = "unodes" /\ bpc = "idle" /\ changesets = <<>>
    /\ position = 0 /\ chunk_pending = <<>> /\ di = 1 /\ in_flight = {}
    /\ generated_count = 0 /\ err = "none"
    /\ derived0 = {} /\ regenerated = <<>> /\ chunk_log = <<>>
    /\ derive_log = <<>> /\ persist_calls = 0
    /\ chunk_durable = {} /\ last_persist = NoPersist
    /\ table = {} /\ public = {} /\ range_inclusive = FALSE
    /\ epc = "idle" /\ enumerated = <<>>
    /\ fail_early = FALSE /\ handles = <<>> /\ num_transfers = 0
    /\ progress = FALSE /\ transfers = <<>> /\ messages = {}
    /\ in_progress = 0 /\ errors = <<>> /\ callbacks = <<>>
    /\ reports = 0 /\ dpc = "idle" /\ dresult = "none"
    /\ log_disk = <<>> /\ log_mem = <<>> /\ ipc = "idle"
    /\ iwatched = NoDelta /\ iphase = "none"
    /\ iadded = {} /\ iadds = 0 /\ iresult = "ok"

\* The tail loop on an executor that keeps polling it, with operations that
\* return in the end.
SpecTailFair ==
    InitSpecTailFair /\ [][NextTail]_vars /\ WF_vars(TailProgress)

\* One run of fetch_all_public_changesets over a changesets table and the
\* phases of its rows.
InitSpecEnum ==
    /\ table \in Tables
    /\ public \in SUBSET table
    /\ range_inclusive \in BOOLEAN
    /\ overflow_checks \in BOOLEAN
    /\ epc = "bounds" /\ enumerated = <<>>
    /\ start = 0 /\ stop = 0 /\ step = 1
    /\ index = 0 /\ yielded = <<>> /\ wpc = "idle"
    /\ durable = {} /\ cache = {} /\ staged = FALSE
    /\ regenerate_overlay = [k \in Kinds |-> {}]
    /\ last = NoCall
    /\ watched = <<"unodes", 0>>
    /\ phase = "fresh"
    /\ snapshot = [decodes |-> FALSE, entries |-> <<>>] /\ skip = 0 /\ regenerate_flag = FALSE
    /\ derived_data_type = "unodes" /\ bpc = "idle" /\ changesets = <<>>
    /\ position = 0 /\ chunk_pending = <<>> /\ di = 1 /\ in_flight = {}
    /\ generated_count = 0 /\ err = "none"
    /\ derived0 = {} /\ regenerated = <<>> /\ chunk_log = <<>>
    /\ derive_log = <<>> /\ persist_calls = 0
    /\ chunk_durable = {} /\ last_persist = NoPersist
    /\ derived_data_types = <<>> /\ tpc = "idle" /\ heads = <<>>
    /\ tail_pending = <<>> /\ tail_work = <<>> /\ tail_next = 0
    /\ tail_queue = {} /\ tail_complete = {} /\ tail_slept = 0
    /\ tail_err = "none" /\ tail_calls = <<>> /\ tail_ran = FALSE
    /\ fail_early = FALSE /\ handles = <<>> /\ num_transfers = 0
    /\ progress = FALSE /\ transfers = <<>> /\ messages = {}
    /\ in_progress = 0 /\ errors = <<>> /\ callbacks = <<>>
    /\ reports = 0 /\ dpc = "idle" /\ dresult = "none"
    /\ log_disk = <<>> /\ log_mem = <<>> /\ ipc = "idle"
    /\ iwatched = NoDelta /\ iphase = "none"
    /\ iadded = {} /\ iadds = 0 /\ iresult = "ok"

SpecEnum == InitSpecEnum /\ [][NextEnum]_vars

\* A driver as with_capacity returns it; then the setters, add and one
\* perform.
InitSpecDriver ==
    /\ fail_early = FALSE /\ handles = <<>> /\ num_transfers = 0
    /\ progress = FALSE /\ transfers = <<>> /\ messages = {}
    /\ in_progress = 0 /\ errors = <<>> /\ callbacks = <<>>
    /\ reports = 0 /\ dpc = "setup" /\ dresult = "none"
    /\ start = 0 /\ stop = 0 /\ step = 1 /\ overflow_checks = FALSE
    /\ index = 0 /\ yielded = <<>> /\ wpc = "idle"
    /\ durable = {} /\ cache = {} /\ staged = FALSE
    /\ regenerate_overlay = [k \in Kinds |-> {}]
    /\ last = NoCall
    /\ watched = <<"unodes", 0>>
    /\ phase = "fresh"
    /\ snapshot = [decodes |-> FALSE, entries |-> <<>>] /\ skip = 0 /\ regenerate_flag = FALSE
    /\ derived_data_type = "unodes" /\ bpc = "idle" /\ changesets = <<>>
    /\ position = 0 /\ chunk_pending = <<>> /\ di = 1 /\ in_flight = {}
    /\ generated_count = 0 /\ err = "none"
    /\ derived0 = {} /\ regenerated = <<>> /\ chunk_log = <<>>
    /\ derive_log = <<>> /\ persist_calls = 0
    /\ chunk_durable = {} /\ last_persist = NoPersist
    /\ derived_data_types = <<>> /\ tpc = "idle" /\ heads = <<>>
    /\ tail_pending = <<>> /\ tail_work = <<>> /\ tail_next = 0
    /\ tail_queue = {} /\ tail_complete = {} /\ tail_slept = 0
    /\ tail_err = "none" /\ tail_calls = <<>> /\ tail_ran = FALSE
    /\ table = {} /\ public = {} /\ range_inclusive = FALSE
    /\ epc = "idle" /\ enumerated = <<>>
    /\ log_disk = <<>> /\ log_mem = <<>> /\ ipc = "idle"
    /\ iwatched = NoDelta /\ iphase = "none"
    /\ iadded = {} /\ iadds = 0 /\ iresult = "ok"

SpecDriver == InitSpecDriver /\ [][NextDriver]_vars

\* A store as IndexedLogHgIdDataStore::new creates it in an empty
\* directory; then add, flush and reopening.
InitSpecILog ==
    /\ log_disk = <<>> /\ log_mem = <<>> /\ ipc = "open"
    /\ iwatched = NoDelta /\ iphase = "none"
    /\ iadded = {} /\ iadds = 0 /\ iresult = "ok"
    /\ start = 0 /\ stop = 0 /\ step = 1 /\ overflow_checks = FALSE
    /\ index = 0 /\ yielded = <<>> /\ wpc = "idle"
    /\ durable = {} /\ cache = {} /\ staged = FALSE
    /\ regenerate_overlay = [k \in Kinds |-> {}]
    /\ last = NoCall
    /\ watched = <<"unodes", 0>>
    /\ phase = "fresh"
    /\ snapshot = [decodes |-> FALSE, entries |-> <<>>] /\ skip = 0 /\ regenerate_flag = FALSE
    /\ derived_data_type = "unodes" /\ bpc = "idle" /\ changesets = <<>>
    /\ position = 0 /\ chunk_pending = <<>> /\ di = 1 /\ in_flight = {}
    /\ generated_count = 0 /\ err = "none"
    /\ derived0 = {} /\ regenerated = <<>> /\ chunk_log = <<>>
    /\ derive_log = <<>> /\ persist_calls = 0
    /\ chunk_durable = {} /\ last_persist = NoPersist
    /\ derived_data_types = <<>> /\ tpc = "idle" /\ heads = <<>>
    /\ tail_pending = <<>> /\ tail_work = <<>> /\ tail_next = 0
    /\ tail_queue = {} /\ tail_complete = {} /\ tail_slept = 0
    /\ tail_err = "none" /\ tail_calls = <<>> /\ tail_ran = FALSE
    /\ table = {} /\ public = {} /\ range_inclusive = FALSE
    /\ epc = "idle" /\ enumerated = <<>>
    /\ fail_early = FALSE /\ handles = <<>> /\ num_transfers = 0
    /\ progress = FALSE /\ transfers = <<>> /\ messages = {}
    /\ in_progress = 0 /\ errors = <<>> /\ callbacks = <<>>
    /\ reports = 0 /\ dpc = "idle" /\ dresult = "none"

SpecILog == InitSpecILog /\ [][NextILog]_vars

\* One run of subcommand_backfill: the repo's blobstore is overridden by a
\* MemWritesBlobstore with an empty buffer, the lease by a DummyLease, and
\* the DerivedUtils of the kind is built with an empty overlay.
Init ==
    /\ snapshot \in Snapshots
    /\ skip \in 0 .. MaxSkip
    /\ regenerate_flag \in BOOLEAN
    /\ derived_data_type \in Kinds
    /\ derived0 \in DerivedSets(Commits)
    /\ durable = ChangesetKeys \cup DerivedKeys(derived_data_type, derived0)
    /\ cache = {}
    /\ staged = TRUE
    /\ regenerate_overlay = [k \in Kinds |-> {}]
    /\ bpc = "start" /\ changesets = <<>> /\ position = 0
    /\ chunk_pending = <<>> /\ di = 1 /\ in_flight = {}
    /\ generated_count = 0 /\ err = "none"
    /\ regenerated = <<>> /\ chunk_log = <<>> /\ derive_log = <<>>
    /\ persist_calls = 0
    /\ chunk_durable = durable /\ last_persist = NoPersist
    /\ last = NoCall
    /\ watched = <<"unodes", 0>>
    /\ phase = "fresh"
    /\ start = 0 /\ stop = 0 /\ step = 1 /\ overflow_checks = FALSE
    /\ index = 0 /\ yielded = <<>> /\ wpc = "idle"
    /\ derived_data_types = <<>> /\ tpc = "idle" /\ heads = <<>>
    /\ tail_pending = <<>> /\ tail_work = <<>> /\ tail_next = 0
    /\ tail_queue = {} /\ tail_complete = {} /\ tail_slept = 0
    /\ tail_err = "none" /\ tail_calls = <<>> /\ tail_ran = FALSE
    /\ table = {} /\ public = {} /\ range_inclusive = FALSE
    /\ epc = "idle" /\ enumerated = <<>>
    /\ fail_early = FALSE /\ handles = <<>> /\ num_transfers = 0
    /\ progress = FALSE /\ transfers = <<>> /\ messages = {}
    /\ in_progress = 0 /\ errors = <<>> /\ callbacks = <<>>
    /\ reports = 0 /\ dpc = "idle" /\ dresult = "none"
    /\ log_disk = <<>> /\ log_mem = <<>> /\ ipc = "idle"
    /\ iwatched = NoDelta /\ iphase = "none"
    /\ iadded = {} /\ iadds = 0 /\ iresult = "ok"

Spec == Init /\ [][Next]_vars

====
